---- MODULE Spec2Model ----
(***************************************************************************)
(* A model of the USDFC subgraph mappings: the event handlers and the      *)
(* entity store they read and write.  Every store is a function from the   *)
(* ids of the entities that exist to their records; Entity.load(id) is a   *)
(* lookup guarded by id \in DOMAIN store, entity.save() is Save.            *)
(*                                                                         *)
(* Amounts are BigInt values.  The model counts them in units of 10^15     *)
(* base units (one thousandth of a token), so that the 18-decimal          *)
(* thresholds of the source fit the integers of the model checker:         *)
(* 10^18 base units (one token) is 1000 units.                             *)
(* BigDecimal values are exact rationals [num, den] in lowest terms.       *)
(***************************************************************************)
EXTENDS Integers, FiniteSets, Sequences, TLC

VARIABLES
  accounts,         \* Account entities, by address
  transactions,     \* Transaction entities, by <<hash, logIndex>>
  transfers,        \* Transfer entities, by <<hash, logIndex>>
  protocolStats,    \* ProtocolStats entities, by id ("global")
  ecosystemStats,   \* EcosystemStats entities, by id ("global")
  dailyStats,       \* DailyEcosystemStats entities, by day id
  troves,           \* Trove entities, by borrower address
  troveOperations,  \* TroveOperation entities, by <<hash, logIndex>>
  priceUpdates,     \* PriceUpdate entities, by <<hash, logIndex>>
  marketConditions, \* MarketCondition entities, by day id
  protocolStakes,   \* ProtocolStake entities, by staker address
  stakeOperations,  \* StakeOperation entities, by <<hash, logIndex>>
  stabilityDeposits,    \* StabilityDeposit entities, by depositor address
  stabilityOperations,  \* StabilityOperation entities, by <<hash, logIndex>>
  liquidations,     \* Liquidation entities, by <<hash, logIndex>>
  bridgeOperations, \* BridgeOperation entities, by <<hash, logIndex>> or <<commandId>>
  bridgeProfiles,   \* BridgeProfile entities, by address
  dexProfiles,      \* DEXProfile entities, by address
  dexTrades,        \* DEXTrade entities, by <<hash, logIndex>>
  poolMetrics,      \* PoolMetrics entities, by pool address
  priceFeed,        \* the module variables of the price feed mapping
  failed,           \* the handler the runtime aborted, after which indexing stops
  build,            \* which token mapping is deployed: "final" or "mvp"
  delivered,        \* number of events handed to a handler so far
  call              \* the last call of a classification function

stores == <<accounts, transactions, transfers, protocolStats, ecosystemStats,
            dailyStats, troves, troveOperations, priceUpdates,
            marketConditions, protocolStakes, stakeOperations,
            stabilityDeposits, stabilityOperations, liquidations,
            bridgeOperations, bridgeProfiles, dexProfiles, dexTrades,
            poolMetrics, priceFeed>>

vars == <<stores, failed, build, delivered, call>>

-----------------------------------------------------------------------------
(* Bounds of the model *)

MaxTokenEvents == 2
MaxProtocolEvents == 3
MaxPositionEvents == 4
MaxBridgeEvents == 3
MaxRatioInput == 9

-----------------------------------------------------------------------------
(* Constants of the source *)

DECIMAL_PRECISION == 1000
SECONDS_PER_DAY == 86400
INSTITUTIONAL_THRESHOLD == 1000000000

GLOBAL_STATS_ID == "global"

TX_SOURCE_CONTRACT_EVENT == "CONTRACT_EVENT"
TX_CATEGORY_TRANSFER == "TRANSFER"
TX_CATEGORY_APPROVAL == "APPROVAL"
ECOSYSTEM_PROTOCOL_NATIVE == "PROTOCOL_NATIVE"
ECOSYSTEM_DEX_ECOSYSTEM == "DEX_ECOSYSTEM"
ECOSYSTEM_BRIDGE_ECOSYSTEM == "BRIDGE_ECOSYSTEM"
ECOSYSTEM_DEFI_ECOSYSTEM == "DEFI_ECOSYSTEM"
ECOSYSTEM_P2P_ECOSYSTEM == "P2P_ECOSYSTEM"

(* Addresses are Bytes values, written as their lower-case hex string (cut *)
(* to the first four digits).  The configuration strings of the source     *)
(* are written as the source spells them, in mixed case.                   *)
ZERO_ADDRESS == "0x0000"
TROVE_MANAGER_ADDRESS == "0x5aB8"
STABILITY_POOL_ADDRESS == "0x791A"
PROTOCOL_TOKEN_STAKING_ADDRESS == "0xc870"
UserA == "0xaaaa"
UserB == "0xbbbb"

-----------------------------------------------------------------------------
(* BigDecimal: exact rationals in lowest terms, den > 0 *)

RECURSIVE Gcd(_, _)
Gcd(a, b) == IF b = 0 THEN a ELSE Gcd(b, a % b)

Abs(x) == IF x < 0 THEN -x ELSE x

(* BigDecimal.div by zero has no value: the runtime aborts the handler.    *)
(* The marker stands for the missing value; every operation on it gives    *)
(* the marker again.                                                       *)
DivisionByZero == [num |-> 0, den |-> 0]

Rat(n, d) ==
  IF d = 0 THEN DivisionByZero
  ELSE LET s == IF d < 0 THEN -1 ELSE 1
           g == Gcd(Abs(n), Abs(d))
       IN [num |-> (s * n) \div g, den |-> (s * d) \div g]

BD(n) == [num |-> n, den |-> 1]
RPlus(a, b) == Rat(a.num * b.den + b.num * a.den, a.den * b.den)
RMinus(a, b) == Rat(a.num * b.den - b.num * a.den, a.den * b.den)
RTimes(a, b) == Rat(a.num * b.num, a.den * b.den)
RDiv(a, b) == Rat(a.num * b.den, a.den * b.num)
RLt(a, b) == a.num * b.den < b.num * a.den
RGt(a, b) == RLt(b, a)

-----------------------------------------------------------------------------
(* The entity store *)

EmptyStore == << >>

(* entity.save(): the entity under id is replaced, every other one is kept *)
Save(store, id, entity) == (id :> entity) @@ store

Exists(store, id) == id \in DOMAIN store

(* hash.concatI32(logIndex) *)
concatI32(hash, logIndex) == <<hash, logIndex>>

(* No classification function has been called *)
NoCall == [fn |-> "none"]

(* The entities a handler reads and writes, threaded through its calls *)
World ==
  [accounts |-> accounts, transactions |-> transactions, transfers |-> transfers,
   protocolStats |-> protocolStats, ecosystemStats |-> ecosystemStats,
   dailyStats |-> dailyStats, troves |-> troves,
   troveOperations |-> troveOperations, priceUpdates |-> priceUpdates,
   marketConditions |-> marketConditions, protocolStakes |-> protocolStakes,
   stakeOperations |-> stakeOperations,
   stabilityDeposits |-> stabilityDeposits,
   stabilityOperations |-> stabilityOperations,
   liquidations |-> liquidations, bridgeOperations |-> bridgeOperations,
   bridgeProfiles |-> bridgeProfiles, dexProfiles |-> dexProfiles,
   dexTrades |-> dexTrades, poolMetrics |-> poolMetrics,
   priceFeed |-> priceFeed]

Commit(w) ==
  /\ accounts' = w.accounts
  /\ transactions' = w.transactions
  /\ transfers' = w.transfers
  /\ protocolStats' = w.protocolStats
  /\ ecosystemStats' = w.ecosystemStats
  /\ dailyStats' = w.dailyStats
  /\ troves' = w.troves
  /\ troveOperations' = w.troveOperations
  /\ priceUpdates' = w.priceUpdates
  /\ marketConditions' = w.marketConditions
  /\ protocolStakes' = w.protocolStakes
  /\ stakeOperations' = w.stakeOperations
  /\ stabilityDeposits' = w.stabilityDeposits
  /\ stabilityOperations' = w.stabilityOperations
  /\ liquidations' = w.liquidations
  /\ bridgeOperations' = w.bridgeOperations
  /\ bridgeProfiles' = w.bridgeProfiles
  /\ dexProfiles' = w.dexProfiles
  /\ dexTrades' = w.dexTrades
  /\ poolMetrics' = w.poolMetrics
  /\ priceFeed' = w.priceFeed

(* A handler that ran to its end writes its entities; one that the runtime *)
(* aborted writes nothing and stops the indexing                          *)
Undefined(entity, decimals) ==
  \E f \in decimals \cap DOMAIN entity : entity[f] = DivisionByZero

Complete(w, aborted, handler) ==
  IF aborted THEN failed' = handler /\ UNCHANGED stores
  ELSE Commit(w) /\ UNCHANGED failed

-----------------------------------------------------------------------------
(* core/universal-transaction.ts                                           *)
(* Block numbers, the lastActive stamps of an account and the fields that  *)
(* are initialised and never written again are left out of the records.    *)

NewAccount ==
  [usdfcBalance |-> 0, totalTransactionCount |-> 0, totalVolumeIn |-> 0,
   totalVolumeOut |-> 0, netVolume |-> 0, tokenTransferCount |-> 0,
   protocolOperationCount |-> 0, dexActivityCount |-> 0,
   bridgeActivityCount |-> 0, p2pTransferCount |-> 0,
   defiIntegrationCount |-> 0, protocolVolume |-> 0, dexVolume |-> 0,
   bridgeVolume |-> 0, p2pVolume |-> 0, defiIntegrationVolume |-> 0,
   userType |-> "RETAIL_USER", riskScore |-> BD(50),
   composabilityScore |-> BD(0), influenceScore |-> BD(0),
   retentionScore |-> BD(50)]

(* Account.load(address), created and saved when absent *)
ensureAccount(w, address) ==
  IF Exists(w.accounts, address) THEN w
  ELSE [w EXCEPT !.accounts = Save(w.accounts, address, NewAccount)]

(* updateActivityCounters without the recomputation of netVolume *)
updateActivityCounters_StaleNet(account, category, ecosystem, value) ==
  LET a1 ==
        IF ecosystem = ECOSYSTEM_PROTOCOL_NATIVE THEN
          [account EXCEPT !.protocolOperationCount = @ + 1, !.protocolVolume = @ + value]
        ELSE IF ecosystem = ECOSYSTEM_DEX_ECOSYSTEM THEN
          [account EXCEPT !.dexActivityCount = @ + 1, !.dexVolume = @ + value]
        ELSE IF ecosystem = ECOSYSTEM_BRIDGE_ECOSYSTEM THEN
          [account EXCEPT !.bridgeActivityCount = @ + 1, !.bridgeVolume = @ + value]
        ELSE IF ecosystem = ECOSYSTEM_P2P_ECOSYSTEM THEN
          [account EXCEPT !.p2pTransferCount = @ + 1, !.p2pVolume = @ + value]
        ELSE IF ecosystem = ECOSYSTEM_DEFI_ECOSYSTEM THEN
          [account EXCEPT !.defiIntegrationCount = @ + 1, !.defiIntegrationVolume = @ + value]
        ELSE account
  IN a1

updateActivityCounters(account, category, ecosystem, value) ==
  LET a1 ==
        IF ecosystem = ECOSYSTEM_PROTOCOL_NATIVE THEN
          [account EXCEPT !.protocolOperationCount = @ + 1, !.protocolVolume = @ + value]
        ELSE IF ecosystem = ECOSYSTEM_DEX_ECOSYSTEM THEN
          [account EXCEPT !.dexActivityCount = @ + 1, !.dexVolume = @ + value]
        ELSE IF ecosystem = ECOSYSTEM_BRIDGE_ECOSYSTEM THEN
          [account EXCEPT !.bridgeActivityCount = @ + 1, !.bridgeVolume = @ + value]
        ELSE IF ecosystem = ECOSYSTEM_P2P_ECOSYSTEM THEN
          [account EXCEPT !.p2pTransferCount = @ + 1, !.p2pVolume = @ + value]
        ELSE IF ecosystem = ECOSYSTEM_DEFI_ECOSYSTEM THEN
          [account EXCEPT !.defiIntegrationCount = @ + 1, !.defiIntegrationVolume = @ + value]
        ELSE account
  IN [a1 EXCEPT !.netVolume = a1.totalVolumeIn - a1.totalVolumeOut]

updateUserIntelligence(account, category, ecosystem, value) ==
  LET totalActivity == account.totalTransactionCount
      dexRatio == IF totalActivity > 0
                  THEN Rat(account.dexActivityCount, totalActivity) ELSE BD(0)
      protocolRatio == IF totalActivity > 0
                       THEN Rat(account.protocolOperationCount, totalActivity) ELSE BD(0)
      userType ==
        IF RGt(dexRatio, Rat(6, 10)) THEN "DEX_TRADER"
        ELSE IF RGt(protocolRatio, Rat(8, 10)) THEN "PROTOCOL_NATIVE"
        ELSE IF totalActivity > 100 THEN "POWER_USER"
        ELSE IF account.bridgeActivityCount > 5 THEN "BRIDGE_USER"
        ELSE IF account.defiIntegrationCount > 10 THEN "DEFI_USER"
        ELSE account.userType
      ecosystemCount ==
          (IF account.protocolOperationCount > 0 THEN 1 ELSE 0)
        + (IF account.dexActivityCount > 0 THEN 1 ELSE 0)
        + (IF account.bridgeActivityCount > 0 THEN 1 ELSE 0)
        + (IF account.p2pTransferCount > 0 THEN 1 ELSE 0)
        + (IF account.defiIntegrationCount > 0 THEN 1 ELSE 0)
      volumeScore == Rat(account.totalVolumeIn + account.totalVolumeOut, DECIMAL_PRECISION)
      activityScore == BD(totalActivity)
      influence == RDiv(RPlus(volumeScore, activityScore), BD(100))
  IN [account EXCEPT
        !.userType = userType,
        !.composabilityScore = RTimes(BD(ecosystemCount), BD(20)),
        !.influenceScore = IF RGt(influence, BD(100)) THEN BD(100) ELSE influence]

updateAccountActivity(w, from, to, value, category, ecosystem, timestamp) ==
  LET w1 == ensureAccount(w, from)
      f0 == w1.accounts[from]
      f1 == [f0 EXCEPT !.totalTransactionCount = @ + 1, !.totalVolumeOut = @ + value]
      f2 == updateUserIntelligence(
              updateActivityCounters(f1, category, ecosystem, value),
              category, ecosystem, value)
      w2 == [w1 EXCEPT !.accounts = Save(w1.accounts, from, f2)]
      w3 == ensureAccount(w2, to)
      t0 == w3.accounts[to]
      t1 == [t0 EXCEPT !.totalTransactionCount = @ + 1, !.totalVolumeIn = @ + value]
      t2 == updateUserIntelligence(
              updateActivityCounters(t1, category, ecosystem, value),
              category, ecosystem, value)
  IN [w3 EXCEPT !.accounts = Save(w3.accounts, to, t2)]

initializeEcosystemStats ==
  [dexTradingVolume |-> 0, bridgeVolume |-> 0, p2pVolume |-> 0,
   defiIntegrationVolume |-> 0, totalEcosystemVolume |-> 0,
   lastUpdateTimestamp |-> 0]

getDayId(timestamp) == timestamp \div SECONDS_PER_DAY

initializeDailyStats ==
  [protocolTransferCount |-> 0, protocolTransferVolume |-> 0,
   dexTradeCount |-> 0, dexTradeVolume |-> 0,
   bridgeOperationCount |-> 0, bridgeVolume |-> 0,
   p2pTransferCount |-> 0, p2pTransferVolume |-> 0,
   totalEcosystemTransactionCount |-> 0, totalEcosystemVolume |-> 0,
   averageTransactionSize |-> BD(0)]

(* updateDailyEcosystemStats with totals that leave the protocol-native    *)
(* counters out, as the global statistics do                               *)
updateDailyEcosystemStats_NoProtocolTotal(w, category, ecosystem, value, timestamp) ==
  LET dayId == getDayId(timestamp)
      s0 == IF Exists(w.dailyStats, dayId) THEN w.dailyStats[dayId]
            ELSE initializeDailyStats
      s1 == IF ecosystem = ECOSYSTEM_PROTOCOL_NATIVE
            THEN [s0 EXCEPT !.protocolTransferCount = @ + 1,
                            !.protocolTransferVolume = @ + value]
            ELSE s0
      s2 == [s1 EXCEPT
               !.totalEcosystemTransactionCount =
                   s1.dexTradeCount + s1.bridgeOperationCount + s1.p2pTransferCount,
               !.totalEcosystemVolume =
                   s1.dexTradeVolume + s1.bridgeVolume + s1.p2pTransferVolume]
  IN [w EXCEPT !.dailyStats = Save(w.dailyStats, dayId, s2)]

updateDailyEcosystemStats(w, category, ecosystem, value, timestamp) ==
  LET dayId == getDayId(timestamp)
      s0 == IF Exists(w.dailyStats, dayId) THEN w.dailyStats[dayId]
            ELSE initializeDailyStats
      s1 ==
        IF ecosystem = ECOSYSTEM_DEX_ECOSYSTEM THEN
          [s0 EXCEPT !.dexTradeCount = @ + 1, !.dexTradeVolume = @ + value]
        ELSE IF ecosystem = ECOSYSTEM_BRIDGE_ECOSYSTEM THEN
          [s0 EXCEPT !.bridgeOperationCount = @ + 1, !.bridgeVolume = @ + value]
        ELSE IF ecosystem = ECOSYSTEM_P2P_ECOSYSTEM THEN
          [s0 EXCEPT !.p2pTransferCount = @ + 1, !.p2pTransferVolume = @ + value]
        ELSE IF ecosystem = ECOSYSTEM_PROTOCOL_NATIVE THEN
          [s0 EXCEPT !.protocolTransferCount = @ + 1, !.protocolTransferVolume = @ + value]
        ELSE s0
      s2 == [s1 EXCEPT
               !.totalEcosystemTransactionCount =
                   s1.protocolTransferCount + s1.dexTradeCount
                   + s1.bridgeOperationCount + s1.p2pTransferCount,
               !.totalEcosystemVolume =
                   s1.protocolTransferVolume + s1.dexTradeVolume
                   + s1.bridgeVolume + s1.p2pTransferVolume]
      s3 == IF s2.totalEcosystemTransactionCount > 0
            THEN [s2 EXCEPT !.averageTransactionSize =
                    Rat(s2.totalEcosystemVolume, s2.totalEcosystemTransactionCount)]
            ELSE s2
  IN [w EXCEPT !.dailyStats = Save(w.dailyStats, dayId, s3)]

updateEcosystemStats(w, category, ecosystem, value, timestamp) ==
  LET s0 == IF Exists(w.ecosystemStats, "global") THEN w.ecosystemStats["global"]
            ELSE initializeEcosystemStats
      s1 ==
        IF ecosystem = ECOSYSTEM_DEX_ECOSYSTEM THEN
          [s0 EXCEPT !.dexTradingVolume = @ + value]
        ELSE IF ecosystem = ECOSYSTEM_BRIDGE_ECOSYSTEM THEN
          [s0 EXCEPT !.bridgeVolume = @ + value]
        ELSE IF ecosystem = ECOSYSTEM_P2P_ECOSYSTEM THEN
          [s0 EXCEPT !.p2pVolume = @ + value]
        ELSE IF ecosystem = ECOSYSTEM_DEFI_ECOSYSTEM THEN
          [s0 EXCEPT !.defiIntegrationVolume = @ + value]
        ELSE s0
      s2 == [s1 EXCEPT
               !.totalEcosystemVolume =
                   s1.dexTradingVolume + s1.bridgeVolume + s1.p2pVolume
                   + s1.defiIntegrationVolume,
               !.lastUpdateTimestamp = timestamp]
      w1 == [w EXCEPT !.ecosystemStats = Save(w.ecosystemStats, "global", s2)]
  IN updateDailyEcosystemStats(w1, category, ecosystem, value, timestamp)

(* The Transaction record written when the key is new *)
NewTransaction(hash, blockTimestamp, from, to, value, source, category, ecosystem, logIndex) ==
  [hash |-> hash, blockTimestamp |-> blockTimestamp, logIndex |-> logIndex,
   from |-> from, to |-> to, value |-> value, source |-> source,
   category |-> category, ecosystem |-> ecosystem, success |-> TRUE]

(* The ledger part of createUniversalTransaction: load, create when absent *)
recordTransaction(w, hash, blockTimestamp, from, to, value, source, category, ecosystem, logIndex) ==
  LET txId == concatI32(hash, logIndex)
  IN IF Exists(w.transactions, txId) THEN w
     ELSE LET w1 == ensureAccount(ensureAccount(w, from), to)
          IN [w1 EXCEPT !.transactions =
                Save(w1.transactions, txId,
                     NewTransaction(hash, blockTimestamp, from, to, value,
                                    source, category, ecosystem, logIndex))]

createUniversalTransaction(w, hash, blockTimestamp, from, to, value, source, category, ecosystem, logIndex) ==
  LET w1 == recordTransaction(w, hash, blockTimestamp, from, to, value, source,
                              category, ecosystem, logIndex)
      w2 == updateAccountActivity(w1, from, to, value, category, ecosystem,
                                  blockTimestamp)
  IN updateEcosystemStats(w2, category, ecosystem, value, blockTimestamp)

-----------------------------------------------------------------------------
(* Addresses and strings *)

(* String.toLowerCase on the hex strings of the model *)
toLowerCase(s) ==
  CASE s = "0x5aB8" -> "0x5ab8"
    [] s = "0x791A" -> "0x791a"
    [] s = "0x80B9" -> "0x80b9"
    [] s = "0xc35D" -> "0xc35d"
    [] OTHER -> s

(* Bytes.fromHexString reads either case; Bytes.toHexString writes lower case *)
fromHexString(s) == toLowerCase(s)
toHexString(b) == b

-----------------------------------------------------------------------------
(* protocol/trove-manager.ts, second part: the token handler built on the  *)
(* universal transaction hub (MVP)                                         *)

classifyTransferType(from, to, value) ==
  LET zeroAddress == fromHexString(ZERO_ADDRESS)
      troveManagerAddress == fromHexString(TROVE_MANAGER_ADDRESS)
      stabilityPoolAddress == fromHexString(STABILITY_POOL_ADDRESS)
      stakingAddress == fromHexString(PROTOCOL_TOKEN_STAKING_ADDRESS)
  IN IF from = zeroAddress THEN "MINT_TO_BORROWER"
     ELSE IF to = zeroAddress THEN "BURN_FROM_REPAYMENT"
     ELSE IF from = troveManagerAddress \/ to = troveManagerAddress
       THEN "LIQUIDATION_REWARD"
     ELSE IF from = stabilityPoolAddress \/ to = stabilityPoolAddress
       THEN "STABILITY_OPERATION"
     ELSE IF from = stakingAddress \/ to = stakingAddress
       THEN "STAKING_OPERATION"
     ELSE "NORMAL"

updateAccountBalancesMVP(w, from, to, value) ==
  LET zeroAddress == fromHexString(ZERO_ADDRESS)
      w1 == IF from # zeroAddress
            THEN LET e == ensureAccount(w, from)
                 IN [e EXCEPT !.accounts =
                       Save(e.accounts, from,
                            [e.accounts[from] EXCEPT !.usdfcBalance = @ - value])]
            ELSE w
  IN IF to # zeroAddress
     THEN LET e == ensureAccount(w1, to)
          IN [e EXCEPT !.accounts =
                Save(e.accounts, to,
                     [e.accounts[to] EXCEPT !.usdfcBalance = @ + value])]
     ELSE w1

initializeProtocolStats ==
  [totalSupply |-> 0, totalDebt |-> 0, totalCollateral |-> 0,
   activeTroveCount |-> 0, totalTroveCount |-> 0, holderCount |-> 0,
   lifetimeVolume |-> 0, lifetimeTransferCount |-> 0, lifetimeMintCount |-> 0,
   lifetimeBurnCount |-> 0, lifetimeLiquidationCount |-> 0,
   lifetimeRedemptionCount |-> 0, lastUpdateTimestamp |-> 0]

updateProtocolStats(w, category, value, timestamp) ==
  LET s0 == IF Exists(w.protocolStats, GLOBAL_STATS_ID)
            THEN w.protocolStats[GLOBAL_STATS_ID] ELSE initializeProtocolStats
      s1 == IF category = TX_CATEGORY_TRANSFER
            THEN [s0 EXCEPT !.lifetimeTransferCount = @ + 1] ELSE s0
      s2 == [s1 EXCEPT !.lifetimeVolume = @ + value,
                       !.lastUpdateTimestamp = timestamp]
  IN [w EXCEPT !.protocolStats = Save(w.protocolStats, GLOBAL_STATS_ID, s2)]

(* One Transfer event handled by the MVP token handler *)
TransferMVP(w, hash, logIndex, timestamp, from, to, value) ==
  LET w1 == createUniversalTransaction(w, hash, timestamp, from, to, value,
              TX_SOURCE_CONTRACT_EVENT, TX_CATEGORY_TRANSFER,
              ECOSYSTEM_PROTOCOL_NATIVE, logIndex)
      transferId == concatI32(hash, logIndex)
      w2 == ensureAccount(ensureAccount(w1, from), to)
      transfer == [timestamp |-> timestamp, from |-> from, to |-> to,
                   value |-> value,
                   transferType |-> classifyTransferType(from, to, value),
                   universalTransaction |-> transferId,
                   ecosystemType |-> ECOSYSTEM_PROTOCOL_NATIVE]
      w3 == [w2 EXCEPT !.transfers = Save(w2.transfers, transferId, transfer)]
      w4 == updateAccountBalancesMVP(w3, from, to, value)
  IN updateProtocolStats(w4, TX_CATEGORY_TRANSFER, value, timestamp)

handleTransferMVP(hash, logIndex, timestamp, from, to, value) ==
  /\ build = "mvp"
  /\ failed = "none"
  /\ delivered < MaxTokenEvents
  /\ delivered' = delivered + 1
  /\ Commit(TransferMVP(World, hash, logIndex, timestamp, from, to, value))
  /\ UNCHANGED <<build, call, failed>>

handleApprovalMVP(hash, logIndex, timestamp, owner, spender) ==
  /\ build = "mvp"
  /\ failed = "none"
  /\ delivered < MaxTokenEvents
  /\ delivered' = delivered + 1
  /\ Commit(createUniversalTransaction(World, hash, timestamp, owner, spender,
              0, TX_SOURCE_CONTRACT_EVENT, TX_CATEGORY_APPROVAL,
              ECOSYSTEM_PROTOCOL_NATIVE, logIndex))
  /\ UNCHANGED <<build, call, failed>>

-----------------------------------------------------------------------------
(* protocol/usdfc-token-final.ts: the token handler with its own ledger    *)
(* write (final)                                                           *)

NewAccountFinal ==
  [NewAccount EXCEPT !.riskScore = BD(0), !.retentionScore = BD(0)]

ensureAccountFinal(w, address) ==
  IF Exists(w.accounts, address) THEN w
  ELSE [w EXCEPT !.accounts = Save(w.accounts, address, NewAccountFinal)]

(* createTransaction that writes the record on every call *)
createTransaction_Overwrite(w, hash, logIndex, timestamp, from, to, value) ==
  LET w1 == ensureAccountFinal(ensureAccountFinal(w, from), to)
  IN [w1 EXCEPT !.transactions =
        Save(w1.transactions, concatI32(hash, logIndex),
             NewTransaction(hash, timestamp, from, to, value,
                            "CONTRACT_EVENT", "TRANSFER", "PROTOCOL_NATIVE",
                            logIndex))]

createTransaction(w, hash, logIndex, timestamp, from, to, value) ==
  LET txId == concatI32(hash, logIndex)
  IN IF Exists(w.transactions, txId) THEN w
     ELSE LET w1 == ensureAccountFinal(ensureAccountFinal(w, from), to)
          IN [w1 EXCEPT !.transactions =
                Save(w1.transactions, txId,
                     NewTransaction(hash, timestamp, from, to, value,
                                    "CONTRACT_EVENT", "TRANSFER",
                                    "PROTOCOL_NATIVE", logIndex))]

DUST_THRESHOLD == 100
MICRO_THRESHOLD == 1000
SMALL_THRESHOLD == 100000
MEDIUM_THRESHOLD == 1000000
LARGE_THRESHOLD == 10000000
WHALE_THRESHOLD == 100000000

DUST_RISK == 0
MICRO_RISK == 2
SMALL_RISK == 5
MEDIUM_RISK == 15
LARGE_RISK == 25
WHALE_RISK == 40
INSTITUTIONAL_RISK == 60
NEW_ACCOUNT_RISK == 10
OFF_HOURS_MULTIPLIER == Rat(12, 10)

getTransferAmountTier(amount) ==
  IF amount < DUST_THRESHOLD THEN "DUST"
  ELSE IF amount < MICRO_THRESHOLD THEN "MICRO"
  ELSE IF amount < SMALL_THRESHOLD THEN "SMALL"
  ELSE IF amount < MEDIUM_THRESHOLD THEN "MEDIUM"
  ELSE IF amount < LARGE_THRESHOLD THEN "LARGE"
  ELSE IF amount < WHALE_THRESHOLD THEN "WHALE"
  ELSE "INSTITUTIONAL"

(* unnamed/part_002: the tier function of the configurable risk module;    *)
(* its TransferAmountTiers has the thresholds of the handler's from MICRO  *)
(* on, and no DUST threshold                                              *)
getTransferAmountTierConfigurable(amount) ==
  IF amount < MICRO_THRESHOLD THEN "DUST"
  ELSE IF amount < SMALL_THRESHOLD THEN "MICRO"
  ELSE IF amount < MEDIUM_THRESHOLD THEN "SMALL"
  ELSE IF amount < LARGE_THRESHOLD THEN "MEDIUM"
  ELSE IF amount < WHALE_THRESHOLD THEN "LARGE"
  ELSE IF amount < INSTITUTIONAL_THRESHOLD THEN "WHALE"
  ELSE "INSTITUTIONAL"

getAmountRiskWeight(amount) ==
  LET tier == getTransferAmountTier(amount)
  IN IF tier = "DUST" THEN BD(DUST_RISK)
     ELSE IF tier = "MICRO" THEN BD(MICRO_RISK)
     ELSE IF tier = "SMALL" THEN BD(SMALL_RISK)
     ELSE IF tier = "MEDIUM" THEN BD(MEDIUM_RISK)
     ELSE IF tier = "LARGE" THEN BD(LARGE_RISK)
     ELSE IF tier = "WHALE" THEN BD(WHALE_RISK)
     ELSE BD(INSTITUTIONAL_RISK)

(* Off hours without the hours 22 and 6 *)
isOffHoursTransaction_Exclusive(timestamp) ==
  LET hour == (timestamp % 86400) \div 3600
  IN hour > 22 \/ hour < 6

isOffHoursTransaction(timestamp) ==
  LET hour == (timestamp % 86400) \div 3600
  IN hour >= 22 \/ hour <= 6

getComposableRiskScore(w, from, to, value, timestamp) ==
  LET r0 == getAmountRiskWeight(value)
      r1 == IF ~Exists(w.accounts, from) \/ w.accounts[from].totalTransactionCount < 5
            THEN RPlus(r0, BD(NEW_ACCOUNT_RISK)) ELSE r0
      r2 == IF ~Exists(w.accounts, to) \/ w.accounts[to].totalTransactionCount < 5
            THEN RPlus(r1, BD(NEW_ACCOUNT_RISK)) ELSE r1
  IN IF isOffHoursTransaction(timestamp) THEN RTimes(r2, OFF_HOURS_MULTIPLIER) ELSE r2

(* The Map built by getProtocolAddresses, keyed by lower-cased address *)
getProtocolAddresses ==
  (toLowerCase(TROVE_MANAGER_ADDRESS) :> "TROVE_MANAGER")
  @@ (toLowerCase(STABILITY_POOL_ADDRESS) :> "STABILITY_POOL")
  @@ (toLowerCase(PROTOCOL_TOKEN_STAKING_ADDRESS) :> "STAKING")

isProtocolAddress(address, protocolAddresses) ==
  toLowerCase(toHexString(address)) \in DOMAIN protocolAddresses

getProtocolOperationType(from, to, protocolAddresses) ==
  LET fromKey == toLowerCase(toHexString(from))
      toKey == toLowerCase(toHexString(to))
      fromType == IF fromKey \in DOMAIN protocolAddresses
                  THEN protocolAddresses[fromKey] ELSE "null"
      toType == IF toKey \in DOMAIN protocolAddresses
                THEN protocolAddresses[toKey] ELSE "null"
  IN IF fromType = "TROVE_MANAGER" \/ toType = "TROVE_MANAGER"
       THEN "LIQUIDATION_REWARD"
     ELSE IF fromType = "STABILITY_POOL" THEN "STABILITY_WITHDRAWAL"
     ELSE IF toType = "STABILITY_POOL" THEN "STABILITY_DEPOSIT"
     ELSE IF fromType = "STAKING" \/ toType = "STAKING" THEN "STAKING_OPERATION"
     ELSE "NORMAL"

KnownDexPlaceholder == "0x0001"
KnownBridgePlaceholder == "0x0002"

isKnownDexAddress(address) ==
  toLowerCase(toHexString(address)) \in {toLowerCase(KnownDexPlaceholder)}

isKnownBridgeAddress(address) ==
  toLowerCase(toHexString(address)) \in {toLowerCase(KnownBridgePlaceholder)}

getConfigurableTransferType(from, to, value) ==
  LET zeroAddress == fromHexString(ZERO_ADDRESS)
      protocolAddresses == getProtocolAddresses
  IN IF from = zeroAddress THEN "MINT_TO_BORROWER"
     ELSE IF to = zeroAddress THEN "BURN_FROM_REPAYMENT"
     ELSE IF isProtocolAddress(from, protocolAddresses)
             \/ isProtocolAddress(to, protocolAddresses)
       THEN getProtocolOperationType(from, to, protocolAddresses)
     ELSE IF isKnownDexAddress(from) THEN "DEX_SWAP_IN"
     ELSE IF isKnownDexAddress(to) THEN "DEX_SWAP_OUT"
     ELSE IF isKnownBridgeAddress(from) THEN "BRIDGE_WITHDRAWAL"
     ELSE IF isKnownBridgeAddress(to) THEN "BRIDGE_DEPOSIT"
     ELSE "NORMAL"

(* updateAccountBalances without the debit of the sender *)
updateAccountBalancesFinal_NoDebit(w, from, to, value) ==
  LET zeroAddress == fromHexString(ZERO_ADDRESS)
  IN IF to # zeroAddress
     THEN LET e == ensureAccountFinal(ensureAccountFinal(w, from), to)
          IN [e EXCEPT !.accounts =
                Save(e.accounts, to,
                     [e.accounts[to] EXCEPT !.usdfcBalance = @ + value])]
     ELSE w

updateAccountBalancesFinal(w, from, to, value) ==
  LET zeroAddress == fromHexString(ZERO_ADDRESS)
      w1 == IF from # zeroAddress
            THEN LET e == ensureAccountFinal(w, from)
                 IN [e EXCEPT !.accounts =
                       Save(e.accounts, from,
                            [e.accounts[from] EXCEPT !.usdfcBalance = @ - value])]
            ELSE w
  IN IF to # zeroAddress
     THEN LET e == ensureAccountFinal(w1, to)
          IN [e EXCEPT !.accounts =
                Save(e.accounts, to,
                     [e.accounts[to] EXCEPT !.usdfcBalance = @ + value])]
     ELSE w1

(* One Transfer event handled by the final token handler *)
TransferFinal(w, hash, logIndex, timestamp, from, to, value) ==
  LET w1 == createTransaction(w, hash, logIndex, timestamp, from, to, value)
      transferId == concatI32(hash, logIndex)
      w2 == ensureAccountFinal(ensureAccountFinal(w1, from), to)
      transfer == [timestamp |-> timestamp, from |-> from, to |-> to,
                   value |-> value,
                   transferType |-> getConfigurableTransferType(from, to, value),
                   universalTransaction |-> transferId,
                   ecosystemType |-> "PROTOCOL_NATIVE",
                   riskScore |-> getComposableRiskScore(w2, from, to, value, timestamp)]
      w3 == [w2 EXCEPT !.transfers = Save(w2.transfers, transferId, transfer)]
  IN updateAccountBalancesFinal(w3, from, to, value)

handleTransferFinal(hash, logIndex, timestamp, from, to, value) ==
  /\ build = "final"
  /\ failed = "none"
  /\ delivered < MaxTokenEvents
  /\ delivered' = delivered + 1
  /\ Commit(TransferFinal(World, hash, logIndex, timestamp, from, to, value))
  /\ UNCHANGED <<build, call, failed>>

handleMint(account, amount) ==
  /\ build = "final"
  /\ failed = "none"
  /\ delivered < MaxTokenEvents
  /\ delivered' = delivered + 1
  /\ LET e == ensureAccountFinal(World, account)
     IN Commit([e EXCEPT !.accounts =
                  Save(e.accounts, account,
                       [e.accounts[account] EXCEPT !.usdfcBalance = @ + amount])])
  /\ UNCHANGED <<build, call, failed>>

handleBurn(account, amount) ==
  /\ build = "final"
  /\ failed = "none"
  /\ delivered < MaxTokenEvents
  /\ delivered' = delivered + 1
  /\ LET e == ensureAccountFinal(World, account)
     IN Commit([e EXCEPT !.accounts =
                  Save(e.accounts, account,
                       [e.accounts[account] EXCEPT !.usdfcBalance = @ - amount])])
  /\ UNCHANGED <<build, call, failed>>

-----------------------------------------------------------------------------
(* protocol/trove-manager.ts: the trove handlers                           *)

TX_CATEGORY_TROVE_OPERATION == "TROVE_OPERATION"
TX_CATEGORY_LIQUIDATION == "LIQUIDATION"
ZERO_BD == BD(0)
ONE_BD == BD(1)

(* BigInt.div: the quotient is truncated towards zero *)
BigIntDiv(a, b) ==
  IF (a < 0) = (b < 0) THEN Abs(a) \div Abs(b) ELSE -(Abs(a) \div Abs(b))

(* utils/helpers.ts *)
calculateCollateralRatio_NoSentinel(collateral, debt) ==
  IF debt = 0 THEN ZERO_BD
  ELSE RTimes(RDiv(BD(collateral), BD(debt)), BD(100))

calculateCollateralRatio(collateral, debt) ==
  IF debt = 0 THEN BD(99999)
  ELSE RTimes(RDiv(BD(collateral), BD(debt)), BD(100))

clamp_Unbounded(value, min, max) == value

clamp(value, min, max) ==
  IF RLt(value, min) THEN min
  ELSE IF RGt(value, max) THEN max
  ELSE value

(* entity.field || default: the default is taken when the field was never *)
(* set on the entity                                                      *)
OrDefault(entity, field, default) ==
  IF field \in DOMAIN entity THEN entity[field] ELSE default

(* new Trove(borrower) with the fields handleTroveUpdated initialises;    *)
(* collateral, debt and status are not among them                         *)
NewTrove_LowestFromZero(borrower, timestamp) ==
  [owner |-> borrower, openedAtTimestamp |-> timestamp, totalBorrowed |-> 0,
   totalRepaid |-> 0, totalCollateralAdded |-> 0,
   totalCollateralWithdrawn |-> 0, borrowingFeesPaid |-> 0,
   operationCount |-> 0, averageCollateralRatio |-> ZERO_BD,
   lowestCollateralRatio |-> ZERO_BD, riskEvents |-> 0,
   performanceScore |-> BD(100)]

NewTrove(borrower, timestamp) ==
  [owner |-> borrower, openedAtTimestamp |-> timestamp, totalBorrowed |-> 0,
   totalRepaid |-> 0, totalCollateralAdded |-> 0,
   totalCollateralWithdrawn |-> 0, borrowingFeesPaid |-> 0,
   operationCount |-> 0, averageCollateralRatio |-> ZERO_BD,
   lowestCollateralRatio |-> BD(99999), riskEvents |-> 0,
   performanceScore |-> BD(100)]

calculateTroveHealthScore_Inclusive(collateralRatio) ==
  IF ~RGt(collateralRatio, BD(110)) THEN ZERO_BD
  ELSE IF ~RGt(collateralRatio, BD(125)) THEN BD(25)
  ELSE IF ~RGt(collateralRatio, BD(150)) THEN BD(50)
  ELSE IF ~RGt(collateralRatio, BD(200)) THEN BD(75)
  ELSE BD(100)

calculateTroveHealthScore(collateralRatio) ==
  IF RLt(collateralRatio, BD(110)) THEN ZERO_BD
  ELSE IF RLt(collateralRatio, BD(125)) THEN BD(25)
  ELSE IF RLt(collateralRatio, BD(150)) THEN BD(50)
  ELSE IF RLt(collateralRatio, BD(200)) THEN BD(75)
  ELSE BD(100)

classifyTroveRiskLevel_Inclusive(collateralRatio) ==
  IF ~RLt(collateralRatio, BD(200)) THEN "VERY_LOW"
  ELSE IF ~RLt(collateralRatio, BD(150)) THEN "LOW"
  ELSE IF ~RLt(collateralRatio, BD(125)) THEN "MEDIUM"
  ELSE IF ~RLt(collateralRatio, BD(110)) THEN "HIGH"
  ELSE IF ~RLt(collateralRatio, BD(105)) THEN "VERY_HIGH"
  ELSE "CRITICAL"

classifyTroveRiskLevel(collateralRatio) ==
  IF RGt(collateralRatio, BD(200)) THEN "VERY_LOW"
  ELSE IF RGt(collateralRatio, BD(150)) THEN "LOW"
  ELSE IF RGt(collateralRatio, BD(125)) THEN "MEDIUM"
  ELSE IF RGt(collateralRatio, BD(110)) THEN "HIGH"
  ELSE IF RGt(collateralRatio, BD(105)) THEN "VERY_HIGH"
  ELSE "CRITICAL"

calculateTrovePerformanceScore(trove) ==
  LET stabilityScore ==
        IF RGt(trove.lowestCollateralRatio, BD(150)) THEN BD(100)
        ELSE RDiv(trove.lowestCollateralRatio, Rat(15, 10))
      riskPenalty == RTimes(BD(trove.riskEvents), BD(10))
      riskScore == clamp(RMinus(BD(100), riskPenalty), ZERO_BD, BD(100))
      ageBonus == clamp(RDiv(BD(trove.daysOpen), BD(30)), ZERO_BD, BD(100))
      totalWeightedScore ==
        RPlus(RPlus(RPlus(RTimes(trove.healthScore, Rat(4, 10)),
                          RTimes(clamp(stabilityScore, ZERO_BD, BD(100)),
                                 Rat(3, 10))),
                    RTimes(riskScore, Rat(2, 10))),
              RTimes(ageBonus, Rat(1, 10)))
      totalWeight == RPlus(RPlus(RPlus(Rat(4, 10), Rat(3, 10)), Rat(2, 10)),
                           Rat(1, 10))
  IN IF RGt(totalWeight, ZERO_BD) THEN RDiv(totalWeightedScore, totalWeight)
     ELSE BD(50)

calculateLiquidationRiskScore(trove) ==
  LET crRisk == RDiv(BD(110), RPlus(trove.collateralRatio, BD(1)))
      f1 == clamp(RTimes(crRisk, BD(100)), ZERO_BD, BD(100))
      eventRisk == RTimes(BD(trove.riskEvents), BD(15))
      f2 == clamp(eventRisk, ZERO_BD, BD(100))
      volatilityRisk ==
        IF trove.operationCount > 0
        THEN RTimes(RDiv(BD(trove.operationCount), BD(trove.daysOpen + 1)),
                    BD(10))
        ELSE ZERO_BD
      f3 == clamp(volatilityRisk, ZERO_BD, BD(100))
  IN RDiv(RPlus(RPlus(f1, f2), f3), BD(3))

generateOptimizationSuggestions(trove) ==
  (IF RLt(trove.collateralRatio, BD(150))
   THEN <<"Consider adding more collateral to improve safety margin">>
   ELSE << >>)
  \o (IF RGt(trove.collateralRatio, BD(300))
      THEN <<"Consider optimizing capital efficiency by borrowing more or withdrawing collateral">>
      ELSE << >>)
  \o (IF trove.riskEvents > 2
      THEN <<"Consider maintaining higher collateral ratios to avoid future risk events">>
      ELSE << >>)
  \o (IF trove.operationCount > 20 /\ trove.daysOpen < 30
      THEN <<"High operation frequency detected - consider longer-term position management">>
      ELSE << >>)

(* The trove carries collateral, debt, daysOpen and status of the event *)
updateTroveAnalytics(trove, previousCollateral, previousDebt, timestamp) ==
  LET collateralRatio == calculateCollateralRatio(trove.collateral, trove.debt)
      lowest == IF RLt(collateralRatio, trove.lowestCollateralRatio)
                THEN collateralRatio ELSE trove.lowestCollateralRatio
      liquidationPrice ==
        IF trove.debt > 0
        THEN RDiv(RTimes(BD(trove.debt), Rat(11, 10)), BD(trove.collateral))
        ELSE ZERO_BD
      safe == RGt(collateralRatio, BD(110))
      collateralChange == trove.collateral - previousCollateral
      debtChange == trove.debt - previousDebt
      operationCount == trove.operationCount + 1
      weight == RDiv(ONE_BD, BD(operationCount))
      measured ==
        [collateralRatio |-> collateralRatio,
         lowestCollateralRatio |-> lowest,
         healthScore |-> calculateTroveHealthScore(collateralRatio),
         riskLevel |-> classifyTroveRiskLevel(collateralRatio),
         liquidationPrice |-> liquidationPrice,
         safetyMargin |-> IF safe THEN RMinus(collateralRatio, BD(110))
                          ELSE ZERO_BD,
         riskEvents |-> IF safe THEN trove.riskEvents
                        ELSE trove.riskEvents + 1,
         totalCollateralAdded |->
           IF collateralChange > 0
           THEN trove.totalCollateralAdded + collateralChange
           ELSE trove.totalCollateralAdded,
         totalCollateralWithdrawn |->
           IF collateralChange < 0
           THEN trove.totalCollateralWithdrawn + (-collateralChange)
           ELSE trove.totalCollateralWithdrawn,
         totalBorrowed |->
           IF debtChange > 0 THEN trove.totalBorrowed + debtChange
           ELSE trove.totalBorrowed,
         totalRepaid |->
           IF debtChange < 0 THEN trove.totalRepaid + (-debtChange)
           ELSE trove.totalRepaid,
         operationCount |-> operationCount,
         averageCollateralRatio |->
           IF operationCount > 0
           THEN RPlus(RTimes(trove.averageCollateralRatio,
                             RMinus(ONE_BD, weight)),
                      RTimes(collateralRatio, weight))
           ELSE trove.averageCollateralRatio]
        @@ trove
      scored(t) == [performanceScore |-> calculateTrovePerformanceScore(t)] @@ t
      rated(t) == [liquidationRiskScore |-> calculateLiquidationRiskScore(t)] @@ t
      advised(t) ==
        [optimizationSuggestions |-> generateOptimizationSuggestions(t)] @@ t
  IN advised(rated(scored(measured)))

(* classifyTroveOperationType that takes a trove with collateral for open *)
classifyTroveOperationType_ByCollateral(collateralChange, debtChange, previousCollateral, previousDebt) ==
  LET wasOpen == previousCollateral > 0
      isOpen == previousDebt + debtChange > 0
  IN IF ~wasOpen /\ isOpen THEN "OPEN"
     ELSE IF wasOpen /\ ~isOpen THEN "CLOSE"
     ELSE IF collateralChange > 0 /\ debtChange = 0 THEN "ADD_COLLATERAL"
     ELSE IF collateralChange < 0 /\ debtChange = 0 THEN "WITHDRAW_COLLATERAL"
     ELSE IF collateralChange = 0 /\ debtChange > 0 THEN "BORROW"
     ELSE IF collateralChange = 0 /\ debtChange < 0 THEN "REPAY"
     ELSE "ADJUST"

classifyTroveOperationType(collateralChange, debtChange, previousCollateral, previousDebt) ==
  LET wasOpen == previousDebt > 0
      isOpen == previousDebt + debtChange > 0
  IN IF ~wasOpen /\ isOpen THEN "OPEN"
     ELSE IF wasOpen /\ ~isOpen THEN "CLOSE"
     ELSE IF collateralChange > 0 /\ debtChange = 0 THEN "ADD_COLLATERAL"
     ELSE IF collateralChange < 0 /\ debtChange = 0 THEN "WITHDRAW_COLLATERAL"
     ELSE IF collateralChange = 0 /\ debtChange > 0 THEN "BORROW"
     ELSE IF collateralChange = 0 /\ debtChange < 0 THEN "REPAY"
     ELSE "ADJUST"

createTroveOperation(w, hash, logIndex, timestamp, borrower, coll, debt, previousCollateral, previousDebt) ==
  LET operationId == concatI32(hash, logIndex)
      operation ==
        [timestamp |-> timestamp, trove |-> borrower,
         collateralChange |-> coll - previousCollateral,
         debtChange |-> debt - previousDebt,
         collateralBefore |-> previousCollateral, collateralAfter |-> coll,
         debtBefore |-> previousDebt, debtAfter |-> debt,
         operation |-> classifyTroveOperationType(coll - previousCollateral,
                         debt - previousDebt, previousCollateral, previousDebt)]
  IN [w EXCEPT !.troveOperations = Save(w.troveOperations, operationId, operation)]

updateProtocolStatsForTrove(w, trove, previousStatus, previousDebt, previousCollateral, isNewTrove, timestamp) ==
  IF ~Exists(w.protocolStats, GLOBAL_STATS_ID) THEN w
  ELSE
    LET s0 == w.protocolStats[GLOBAL_STATS_ID]
        s1 == IF isNewTrove THEN [s0 EXCEPT !.totalTroveCount = @ + 1] ELSE s0
        s2 == IF previousStatus # trove.status
              THEN IF trove.status = "ACTIVE" /\ previousStatus # "ACTIVE"
                   THEN [s1 EXCEPT !.activeTroveCount = @ + 1]
                   ELSE IF previousStatus = "ACTIVE" /\ trove.status # "ACTIVE"
                   THEN [s1 EXCEPT !.activeTroveCount = @ - 1]
                   ELSE s1
              ELSE s1
        s3 == [s2 EXCEPT !.totalDebt = @ + (trove.debt - previousDebt),
                         !.totalCollateral = @ + (trove.collateral - previousCollateral),
                         !.lastUpdateTimestamp = timestamp]
    IN [w EXCEPT !.protocolStats = Save(w.protocolStats, GLOBAL_STATS_ID, s3)]

(* handleTroveUpdated from the load of the trove on: w is the store after *)
(* the universal transaction of the event has been recorded               *)
updateTrove(w, hash, logIndex, timestamp, borrower, coll, debt, stake) ==
  LET isNewTrove == ~Exists(w.troves, borrower)
      t0 == IF isNewTrove THEN NewTrove(borrower, timestamp)
            ELSE w.troves[borrower]
      previousCollateral == OrDefault(t0, "collateral", 0)
      previousDebt == OrDefault(t0, "debt", 0)
      previousStatus == OrDefault(t0, "status", "ACTIVE")
      t1 == [collateral |-> coll, debt |-> debt, stake |-> stake,
             lastUpdateTimestamp |-> timestamp,
             daysOpen |-> BigIntDiv(timestamp - t0.openedAtTimestamp, 86400)]
            @@ t0
      t2 == IF debt = 0
            THEN [status |-> "CLOSED_BY_OWNER", closedAtTimestamp |-> timestamp]
                 @@ t1
            ELSE [status |-> "ACTIVE"] @@ t1
      saved(w3, trove) ==
        updateProtocolStatsForTrove(
          [w3 EXCEPT !.troves = Save(w3.troves, borrower, trove)], trove,
          previousStatus, previousDebt, previousCollateral, isNewTrove,
          timestamp)
  IN saved(createTroveOperation(w, hash, logIndex, timestamp, borrower, coll,
                                debt, previousCollateral, previousDebt),
           updateTroveAnalytics(t2, previousCollateral, previousDebt, timestamp))

(* One TroveUpdated event handled *)
TroveUpdated(w, hash, logIndex, timestamp, borrower, coll, debt, stake) ==
  updateTrove(
    ensureAccount(
      createUniversalTransaction(w, hash, timestamp, borrower, borrower, debt,
        TX_SOURCE_CONTRACT_EVENT, TX_CATEGORY_TROVE_OPERATION,
        ECOSYSTEM_PROTOCOL_NATIVE, logIndex),
      borrower),
    hash, logIndex, timestamp, borrower, coll, debt, stake)

(* handleTroveLiquidated with the position of the trove cleared and the    *)
(* lifetime totals left as they are                                        *)
liquidateTrove_ClearsPosition(w, timestamp, borrower) ==
  IF ~Exists(w.troves, borrower) THEN w
  ELSE
    LET t0 == w.troves[borrower]
        t1 == [status |-> "CLOSED_BY_LIQUIDATION", debt |-> 0, collateral |-> 0,
               closedAtTimestamp |-> timestamp,
               riskEvents |-> t0.riskEvents + 1]
              @@ t0
    IN updateProtocolStatsForTrove(
         [w EXCEPT !.troves = Save(w.troves, borrower, t1)], t1, t0.status,
         t0.debt, t0.collateral, FALSE, timestamp)

(* handleTroveLiquidated from the load of the trove on *)
liquidateTrove(w, timestamp, borrower) ==
  IF ~Exists(w.troves, borrower) THEN w
  ELSE
    LET t0 == w.troves[borrower]
        t1 == [status |-> "CLOSED_BY_LIQUIDATION",
               closedAtTimestamp |-> timestamp,
               riskEvents |-> t0.riskEvents + 1,
               performanceScore |->
                 clamp(RTimes(t0.performanceScore, Rat(5, 10)),
                       ZERO_BD, BD(100))]
              @@ t0
    IN updateProtocolStatsForTrove(
         [w EXCEPT !.troves = Save(w.troves, borrower, t1)], t1, t0.status,
         t0.debt, t0.collateral, FALSE, timestamp)

(* One TroveLiquidated event handled *)
TroveLiquidated(w, hash, logIndex, timestamp, borrower, debt) ==
  liquidateTrove(
    createUniversalTransaction(w, hash, timestamp, borrower, borrower, debt,
      TX_SOURCE_CONTRACT_EVENT, TX_CATEGORY_LIQUIDATION,
      ECOSYSTEM_PROTOCOL_NATIVE, logIndex),
    timestamp, borrower)

(* The debt and collateral of a liquidation leave the totals *)
updateProtocolStatsForLiquidation(w, liquidatedDebt, liquidatedCollateral, timestamp) ==
  IF ~Exists(w.protocolStats, GLOBAL_STATS_ID) THEN w
  ELSE
    LET s0 == w.protocolStats[GLOBAL_STATS_ID]
        s1 == [s0 EXCEPT !.lifetimeLiquidationCount = @ + 1,
                         !.totalDebt = @ - liquidatedDebt,
                         !.totalCollateral = @ - liquidatedCollateral,
                         !.lastUpdateTimestamp = timestamp]
    IN [w EXCEPT !.protocolStats = Save(w.protocolStats, GLOBAL_STATS_ID, s1)]

(* One Liquidation event handled: the gas compensations are stored as the  *)
(* event has them and read nowhere                                         *)
Liquidation(w, hash, logIndex, timestamp, liquidatedDebt, liquidatedColl) ==
  LET liquidation == [timestamp |-> timestamp,
                      collateralLiquidated |-> liquidatedColl,
                      debtLiquidated |-> liquidatedDebt,
                      transactionHash |-> hash]
  IN updateProtocolStatsForLiquidation(
       [w EXCEPT !.liquidations = Save(w.liquidations, <<hash, logIndex>>, liquidation)],
       liquidatedDebt, liquidatedColl, timestamp)

(* The log of the chain: the events of transaction 0xe1 are in a block of  *)
(* the last second of day 0, those of 0xe2 in a block of the first second  *)
(* of day 1, those of 0xe3 in a block thirty days after that.              *)
blockTimestamp(hash) ==
  IF hash = "0xe1" THEN 86399
  ELSE IF hash = "0xe2" THEN 86400
  ELSE 31 * 86400

(* Events of the protocol contracts are handled in the order of the log:  *)
(* the event at position i has its own key                                *)
EventAt(i) == <<IF i < 2 THEN "0xe1" ELSE "0xe3", i>>

(* The BigDecimal fields of a Trove *)
TroveDecimals ==
  {"collateralRatio", "lowestCollateralRatio", "averageCollateralRatio",
   "healthScore", "liquidationPrice", "safetyMargin", "performanceScore",
   "liquidationRiskScore"}

TroveUpdateCompleted(w, borrower) ==
  Complete(w, Undefined(w.troves[borrower], TroveDecimals), "handleTroveUpdated")

handleTroveUpdated(borrower, coll, debt, stake) ==
  /\ failed = "none"
  /\ delivered < MaxProtocolEvents
  /\ delivered' = delivered + 1
  /\ LET e == EventAt(delivered)
     IN TroveUpdateCompleted(
          TroveUpdated(World, e[1], e[2], blockTimestamp(e[1]), borrower,
                       coll, debt, stake),
          borrower)
  /\ UNCHANGED <<build, call>>

handleTroveLiquidated(borrower, debt) ==
  /\ failed = "none"
  /\ delivered < MaxProtocolEvents
  /\ delivered' = delivered + 1
  /\ LET e == EventAt(delivered)
     IN Commit(TroveLiquidated(World, e[1], e[2], blockTimestamp(e[1]),
                               borrower, debt))
  /\ UNCHANGED <<build, call, failed>>

handleLiquidation(liquidatedDebt, liquidatedColl) ==
  /\ failed = "none"
  /\ delivered < MaxProtocolEvents
  /\ delivered' = delivered + 1
  /\ LET e == EventAt(delivered)
     IN Commit(Liquidation(World, e[1], e[2], blockTimestamp(e[1]),
                           liquidatedDebt, liquidatedColl))
  /\ UNCHANGED <<build, call, failed>>

-----------------------------------------------------------------------------
(* protocol/staking.ts                                                     *)

TX_CATEGORY_STABILITY_OPERATION == "STABILITY_OPERATION"
TX_CATEGORY_STAKING_OPERATION == "STAKING_OPERATION"

(* new ProtocolStake(staker) with the fields handleStakeChanged            *)
(* initialises; stake is not among them                                    *)
NewProtocolStake(staker, timestamp) ==
  [staker |-> staker, totalStaked |-> 0, totalUnstaked |-> 0,
   totalFILGained |-> 0, totalUSDFCGained |-> 0, firstStakeAt |-> timestamp,
   averageStake |-> ZERO_BD, stakingYieldRate |-> ZERO_BD,
   performanceScore |-> BD(100), stakingStrategy |-> "CONSERVATIVE",
   daysActive |-> 0]

updateStakingPerformance(stake) ==
  LET averageStake ==
        IF stake.daysActive > 0
        THEN RPlus(RTimes(stake.averageStake, Rat(9, 10)),
                   RTimes(BD(stake.stake), Rat(1, 10)))
        ELSE BD(stake.stake)
      consistencyScore ==
        IF stake.daysActive > 30 THEN BD(100)
        ELSE RTimes(BD(stake.daysActive), Rat(333, 100))
      sizeScore ==
        IF stake.stake > 1000 * DECIMAL_PRECISION THEN BD(100)
        ELSE RDiv(BD(stake.stake), BD(10 * DECIMAL_PRECISION))
      performanceScore == RDiv(RPlus(consistencyScore, sizeScore), BD(2))
  IN [stake EXCEPT
        !.averageStake = averageStake,
        !.performanceScore = IF RGt(performanceScore, BD(100)) THEN BD(100)
                             ELSE performanceScore]

updateStakingYieldMetrics(stake, filGain, usdfcGain) ==
  IF stake.daysActive > 0 /\ RGt(stake.averageStake, ZERO_BD)
  THEN LET dailyYield == RDiv(BD(filGain + usdfcGain), stake.averageStake)
           annualizedYield == RTimes(dailyYield, BD(365))
       IN [stake EXCEPT !.stakingYieldRate =
             IF @ = ZERO_BD THEN RTimes(annualizedYield, BD(100))
             ELSE RPlus(RTimes(@, Rat(8, 10)),
                        RTimes(RTimes(annualizedYield, BD(100)), Rat(2, 10)))]
  ELSE stake

updateStakingStrategy(stake) ==
  LET avgStakeUSDFC == RDiv(stake.averageStake, BD(DECIMAL_PRECISION))
      yieldRate == stake.stakingYieldRate
  IN [stake EXCEPT !.stakingStrategy =
        IF RGt(avgStakeUSDFC, BD(100000))
        THEN IF stake.daysActive > 365 THEN "WHALE_LONG_TERM"
             ELSE "WHALE_SHORT_TERM"
        ELSE IF RGt(avgStakeUSDFC, BD(10000))
        THEN IF RGt(yieldRate, BD(10)) THEN "YIELD_FOCUSED" ELSE "BALANCED"
        ELSE IF RGt(avgStakeUSDFC, BD(1000))
        THEN IF stake.daysActive < 30 THEN "EXPERIMENTAL" ELSE "CONSERVATIVE"
        ELSE "MINIMAL"]

createStakeOperation(w, hash, logIndex, timestamp, staker, operationType, stakeChange) ==
  [w EXCEPT !.stakeOperations =
     Save(w.stakeOperations, concatI32(hash, logIndex),
          [timestamp |-> timestamp, stake |-> staker,
           operation |-> operationType, amount |-> Abs(stakeChange),
           filClaimed |-> 0, usdfcClaimed |-> 0, transactionHash |-> hash])]

(* Shared shape of updateProtocolStatsForStaking and                       *)
(* updateProtocolStatsForStability: the stamp of the last update           *)
updateProtocolStatsForStaking(w, timestamp) ==
  IF ~Exists(w.protocolStats, GLOBAL_STATS_ID) THEN w
  ELSE [w EXCEPT !.protocolStats =
          Save(w.protocolStats, GLOBAL_STATS_ID,
               [w.protocolStats[GLOBAL_STATS_ID] EXCEPT
                  !.lastUpdateTimestamp = timestamp])]

(* The type of a change of a stake or of a deposit *)
stakeOperationType(previous, new, up, down) ==
  IF previous = 0 /\ new > 0 THEN up
  ELSE IF new - previous > 0 THEN up
  ELSE IF new - previous < 0 THEN down
  ELSE "CLAIM_GAINS"

(* handleStakeChanged with every rise booked as the whole new stake *)
changeStake_BooksWholeStake(w, hash, logIndex, timestamp, staker, newStake) ==
  LET s0 == IF Exists(w.protocolStakes, staker) THEN w.protocolStakes[staker]
            ELSE NewProtocolStake(staker, timestamp)
      previousStake == OrDefault(s0, "stake", 0)
      stakeChange == newStake - previousStake
      s1 == [stake |-> newStake, lastActivityAt |-> timestamp,
             daysActive |-> BigIntDiv(timestamp - s0.firstStakeAt, 86400)]
            @@ s0
      s2 == IF stakeChange > 0
            THEN [s1 EXCEPT !.totalStaked = @ + newStake]
            ELSE IF stakeChange < 0
            THEN [s1 EXCEPT !.totalUnstaked = @ + (-stakeChange)]
            ELSE s1
      stored(w1) ==
        [w1 EXCEPT !.protocolStakes =
           Save(w1.protocolStakes, staker, updateStakingPerformance(s2))]
  IN updateProtocolStatsForStaking(
       createStakeOperation(stored(w), hash, logIndex, timestamp, staker,
         stakeOperationType(previousStake, newStake, "STAKE", "UNSTAKE"),
         stakeChange),
       timestamp)

(* handleStakeChanged from the load of the stake on *)
changeStake(w, hash, logIndex, timestamp, staker, newStake) ==
  LET s0 == IF Exists(w.protocolStakes, staker) THEN w.protocolStakes[staker]
            ELSE NewProtocolStake(staker, timestamp)
      previousStake == OrDefault(s0, "stake", 0)
      stakeChange == newStake - previousStake
      s1 == [stake |-> newStake, lastActivityAt |-> timestamp,
             daysActive |-> BigIntDiv(timestamp - s0.firstStakeAt, 86400)]
            @@ s0
      s2 == IF previousStake = 0 /\ newStake > 0
            THEN [s1 EXCEPT !.totalStaked = @ + newStake]
            ELSE IF stakeChange > 0
            THEN [s1 EXCEPT !.totalStaked = @ + stakeChange]
            ELSE IF stakeChange < 0
            THEN [s1 EXCEPT !.totalUnstaked = @ + (-stakeChange)]
            ELSE s1
      stored(w1) ==
        [w1 EXCEPT !.protocolStakes =
           Save(w1.protocolStakes, staker, updateStakingPerformance(s2))]
  IN updateProtocolStatsForStaking(
       createStakeOperation(stored(w), hash, logIndex, timestamp, staker,
         stakeOperationType(previousStake, newStake, "STAKE", "UNSTAKE"),
         stakeChange),
       timestamp)

(* One StakeChanged event handled *)
StakeChanged(w, hash, logIndex, timestamp, staker, newStake) ==
  changeStake(
    ensureAccount(
      createUniversalTransaction(w, hash, timestamp, staker, staker, newStake,
        TX_SOURCE_CONTRACT_EVENT, TX_CATEGORY_STAKING_OPERATION,
        ECOSYSTEM_PROTOCOL_NATIVE, logIndex),
      staker),
    hash, logIndex, timestamp, staker, newStake)

(* handleStakingGainsWithdrawn from the load of the stake on *)
claimStakingGains_CreatesStake(w, hash, logIndex, timestamp, staker, filGain, usdfcGain) ==
  [w EXCEPT !.protocolStakes =
     Save(w.protocolStakes, staker,
          [(IF Exists(w.protocolStakes, staker) THEN w.protocolStakes[staker]
            ELSE NewProtocolStake(staker, timestamp))
           EXCEPT !.totalFILGained = @ + filGain,
                  !.totalUSDFCGained = @ + usdfcGain])]

claimStakingGains(w, hash, logIndex, timestamp, staker, filGain, usdfcGain) ==
  IF ~Exists(w.protocolStakes, staker) THEN w
  ELSE
    LET s0 == w.protocolStakes[staker]
        s1 == [lastActivityAt |-> timestamp]
              @@ [s0 EXCEPT !.totalFILGained = @ + filGain,
                            !.totalUSDFCGained = @ + usdfcGain]
        s2 == updateStakingStrategy(updateStakingYieldMetrics(s1, filGain, usdfcGain))
    IN [w EXCEPT
          !.protocolStakes = Save(w.protocolStakes, staker, s2),
          !.stakeOperations =
            Save(w.stakeOperations, concatI32(hash, logIndex),
                 [timestamp |-> timestamp, stake |-> staker,
                  operation |-> "CLAIM_GAINS", amount |-> 0,
                  filClaimed |-> filGain, usdfcClaimed |-> usdfcGain,
                  transactionHash |-> hash])]

(* One StakingGainsWithdrawn event handled *)
StakingGainsWithdrawn(w, hash, logIndex, timestamp, staker, filGain, usdfcGain) ==
  claimStakingGains(
    createUniversalTransaction(w, hash, timestamp, staker, staker, filGain,
      TX_SOURCE_CONTRACT_EVENT, TX_CATEGORY_STAKING_OPERATION,
      ECOSYSTEM_PROTOCOL_NATIVE, logIndex),
    hash, logIndex, timestamp, staker, filGain, usdfcGain)

-----------------------------------------------------------------------------
(* unnamed/part_005: the stability pool handlers                           *)

(* new StabilityDeposit(depositor) with the fields handleUserDepositChanged *)
(* initialises; currentDeposit is not among them                           *)
NewStabilityDeposit(depositor, timestamp) ==
  [depositor |-> depositor, totalDeposited |-> 0, totalWithdrawn |-> 0,
   totalCollateralGained |-> 0, totalProtocolTokenGained |-> 0,
   firstDepositAt |-> timestamp, averageDeposit |-> ZERO_BD,
   yieldRate |-> ZERO_BD, performanceScore |-> BD(100), riskScore |-> BD(10),
   daysActive |-> 0]

updateStabilityPerformance(deposit) ==
  LET averageDeposit ==
        IF deposit.daysActive > 0
        THEN RPlus(RTimes(deposit.averageDeposit, Rat(9, 10)),
                   RTimes(BD(deposit.currentDeposit), Rat(1, 10)))
        ELSE BD(deposit.currentDeposit)
      consistencyScore ==
        IF deposit.daysActive > 30 THEN BD(100)
        ELSE RTimes(BD(deposit.daysActive), Rat(333, 100))
      sizeScore ==
        IF deposit.currentDeposit > 1000 * DECIMAL_PRECISION THEN BD(100)
        ELSE RDiv(BD(deposit.currentDeposit), BD(10 * DECIMAL_PRECISION))
      performanceScore == RDiv(RPlus(consistencyScore, sizeScore), BD(2))
  IN [deposit EXCEPT
        !.averageDeposit = averageDeposit,
        !.performanceScore = IF RGt(performanceScore, BD(100)) THEN BD(100)
                             ELSE performanceScore]

updateStabilityYieldMetrics(deposit, filGain) ==
  IF deposit.daysActive > 0 /\ RGt(deposit.averageDeposit, ZERO_BD)
  THEN LET dailyYield == RDiv(BD(filGain), deposit.averageDeposit)
           annualizedYield == RTimes(dailyYield, BD(365))
       IN [deposit EXCEPT !.yieldRate =
             IF @ = ZERO_BD THEN RTimes(annualizedYield, BD(100))
             ELSE RPlus(RTimes(@, Rat(8, 10)),
                        RTimes(RTimes(annualizedYield, BD(100)), Rat(2, 10)))]
  ELSE deposit

createStabilityOperation(w, hash, logIndex, timestamp, depositor, operationType, depositChange) ==
  [w EXCEPT !.stabilityOperations =
     Save(w.stabilityOperations, concatI32(hash, logIndex),
          [timestamp |-> timestamp, deposit |-> depositor,
           operation |-> operationType, amount |-> Abs(depositChange),
           collateralGainClaimed |-> 0, protocolTokenClaimed |-> 0,
           transactionHash |-> hash])]

updateProtocolStatsForStability(w, timestamp) ==
  IF ~Exists(w.protocolStats, GLOBAL_STATS_ID) THEN w
  ELSE [w EXCEPT !.protocolStats =
          Save(w.protocolStats, GLOBAL_STATS_ID,
               [w.protocolStats[GLOBAL_STATS_ID] EXCEPT
                  !.lastUpdateTimestamp = timestamp])]

(* handleUserDepositChanged from the load of the deposit on *)
changeDeposit(w, hash, logIndex, timestamp, depositor, newDeposit) ==
  LET d0 == IF Exists(w.stabilityDeposits, depositor)
            THEN w.stabilityDeposits[depositor]
            ELSE NewStabilityDeposit(depositor, timestamp)
      previousDeposit == OrDefault(d0, "currentDeposit", 0)
      depositChange == newDeposit - previousDeposit
      d1 == [currentDeposit |-> newDeposit, lastActivityAt |-> timestamp,
             daysActive |-> BigIntDiv(timestamp - d0.firstDepositAt, 86400)]
            @@ d0
      d2 == IF previousDeposit = 0 /\ newDeposit > 0
            THEN [d1 EXCEPT !.totalDeposited = @ + newDeposit]
            ELSE IF depositChange > 0
            THEN [d1 EXCEPT !.totalDeposited = @ + depositChange]
            ELSE IF depositChange < 0
            THEN [d1 EXCEPT !.totalWithdrawn = @ + (-depositChange)]
            ELSE d1
      stored(w1) ==
        [w1 EXCEPT !.stabilityDeposits =
           Save(w1.stabilityDeposits, depositor, updateStabilityPerformance(d2))]
  IN updateProtocolStatsForStability(
       createStabilityOperation(stored(w), hash, logIndex, timestamp, depositor,
         stakeOperationType(previousDeposit, newDeposit, "DEPOSIT", "WITHDRAW"),
         depositChange),
       timestamp)

(* One UserDepositChanged event handled *)
UserDepositChanged(w, hash, logIndex, timestamp, depositor, newDeposit) ==
  changeDeposit(
    ensureAccount(
      createUniversalTransaction(w, hash, timestamp, depositor, depositor,
        newDeposit, TX_SOURCE_CONTRACT_EVENT, TX_CATEGORY_STABILITY_OPERATION,
        ECOSYSTEM_PROTOCOL_NATIVE, logIndex),
      depositor),
    hash, logIndex, timestamp, depositor, newDeposit)

(* handleFILGainWithdrawn from the load of the deposit on *)
claimCollateralGains_CreatesDeposit(w, hash, logIndex, timestamp, depositor, fil, lqty) ==
  [w EXCEPT !.stabilityDeposits =
     Save(w.stabilityDeposits, depositor,
          [(IF Exists(w.stabilityDeposits, depositor)
            THEN w.stabilityDeposits[depositor]
            ELSE NewStabilityDeposit(depositor, timestamp))
           EXCEPT !.totalCollateralGained = @ + fil,
                  !.totalProtocolTokenGained = @ + lqty])]

claimCollateralGains(w, hash, logIndex, timestamp, depositor, fil, lqty) ==
  IF ~Exists(w.stabilityDeposits, depositor) THEN w
  ELSE
    LET d0 == w.stabilityDeposits[depositor]
        d1 == [lastActivityAt |-> timestamp]
              @@ [d0 EXCEPT !.totalCollateralGained = @ + fil,
                            !.totalProtocolTokenGained = @ + lqty]
    IN [w EXCEPT
          !.stabilityDeposits =
            Save(w.stabilityDeposits, depositor,
                 updateStabilityYieldMetrics(d1, fil)),
          !.stabilityOperations =
            Save(w.stabilityOperations, concatI32(hash, logIndex),
                 [timestamp |-> timestamp, deposit |-> depositor,
                  operation |-> "CLAIM_GAINS", amount |-> 0,
                  collateralGainClaimed |-> fil, protocolTokenClaimed |-> lqty,
                  transactionHash |-> hash])]

(* One FILGainWithdrawn event handled *)
FILGainWithdrawn(w, hash, logIndex, timestamp, depositor, fil, lqty) ==
  claimCollateralGains(
    createUniversalTransaction(w, hash, timestamp, depositor, depositor, fil,
      TX_SOURCE_CONTRACT_EVENT, TX_CATEGORY_STABILITY_OPERATION,
      ECOSYSTEM_PROTOCOL_NATIVE, logIndex),
    hash, logIndex, timestamp, depositor, fil, lqty)

(* The log of the staking and stability pool contracts: the first event   *)
(* is in a block of day 0, the later ones in a block thirty days after it  *)
PositionEventAt(i) == <<IF i < 1 THEN "0xe1" ELSE "0xe3", i>>

(* The decimal fields of the position records the four handlers compute *)
PositionDecimals == {"averageStake", "stakingYieldRate", "averageDeposit", "yieldRate", "performanceScore"}

StakeCompleted(w, staker, handler) ==
  Complete(w, Exists(w.protocolStakes, staker) /\ Undefined(w.protocolStakes[staker], PositionDecimals), handler)

DepositCompleted(w, depositor, handler) ==
  Complete(w, Exists(w.stabilityDeposits, depositor) /\ Undefined(w.stabilityDeposits[depositor], PositionDecimals), handler)

handleStakeChanged(staker, newStake) ==
  /\ failed = "none"
  /\ delivered < MaxPositionEvents
  /\ LET e == PositionEventAt(delivered)
     IN StakeCompleted(
          StakeChanged(World, e[1], e[2], blockTimestamp(e[1]), staker, newStake),
          staker, "handleStakeChanged")
  /\ delivered' = delivered + 1
  /\ UNCHANGED <<build, call>>

handleStakingGainsWithdrawn(staker, filGain, usdfcGain) ==
  /\ failed = "none"
  /\ delivered < MaxPositionEvents
  /\ LET e == PositionEventAt(delivered)
     IN StakeCompleted(
          StakingGainsWithdrawn(World, e[1], e[2], blockTimestamp(e[1]), staker, filGain, usdfcGain),
          staker, "handleStakingGainsWithdrawn")
  /\ delivered' = delivered + 1
  /\ UNCHANGED <<build, call>>

handleUserDepositChanged(depositor, newDeposit) ==
  /\ failed = "none"
  /\ delivered < MaxPositionEvents
  /\ LET e == PositionEventAt(delivered)
     IN DepositCompleted(
          UserDepositChanged(World, e[1], e[2], blockTimestamp(e[1]), depositor, newDeposit),
          depositor, "handleUserDepositChanged")
  /\ delivered' = delivered + 1
  /\ UNCHANGED <<build, call>>

handleFILGainWithdrawn(depositor, fil, lqty) ==
  /\ failed = "none"
  /\ delivered < MaxPositionEvents
  /\ LET e == PositionEventAt(delivered)
     IN DepositCompleted(
          FILGainWithdrawn(World, e[1], e[2], blockTimestamp(e[1]), depositor, fil, lqty),
          depositor, "handleFILGainWithdrawn")
  /\ delivered' = delivered + 1
  /\ UNCHANGED <<build, call>>

-----------------------------------------------------------------------------
(* unnamed/part_004: the price feed handler.  The price is a BigInt in the *)
(* unit of the amounts.                                                    *)

PRICE_FEED_ADDRESS == "0x80e6"

(* The price change in percent: it is computed and logged, not stored; the *)
(* division by the previous price is guarded                              *)
updateMarketAnalytics(feed, currentPrice) ==
  IF RGt(feed.previousPrice, ZERO_BD)
  THEN RTimes(RDiv(RMinus(currentPrice, feed.previousPrice),
                   feed.previousPrice), BD(100))
  ELSE ZERO_BD

NewMarketCondition_CountFromZero(dayId, currentPrice, timestamp) ==
  [date |-> dayId, timestamp |-> timestamp, openPrice |-> currentPrice,
   highPrice |-> currentPrice, lowPrice |-> currentPrice,
   priceUpdatesCount |-> 0, volatilityScore |-> ZERO_BD,
   trendDirection |-> "NEUTRAL"]

NewMarketCondition(dayId, currentPrice, timestamp) ==
  [date |-> dayId, timestamp |-> timestamp, openPrice |-> currentPrice,
   highPrice |-> currentPrice, lowPrice |-> currentPrice,
   priceUpdatesCount |-> 1, volatilityScore |-> ZERO_BD,
   trendDirection |-> "NEUTRAL"]

trendOf(changePercent) ==
  IF RGt(changePercent, BD(2)) THEN "BULLISH"
  ELSE IF RLt(changePercent, BD(-2)) THEN "BEARISH"
  ELSE "NEUTRAL"

updateMarketConditions(w, currentPrice, timestamp) ==
  LET dayId == BigIntDiv(timestamp, 86400)
      m0 == IF ~Exists(w.marketConditions, dayId)
            THEN NewMarketCondition(dayId, currentPrice, timestamp)
            ELSE LET m == w.marketConditions[dayId]
                 IN [m EXCEPT
                       !.highPrice = IF RGt(currentPrice, @) THEN currentPrice ELSE @,
                       !.lowPrice = IF RLt(currentPrice, @) THEN currentPrice ELSE @,
                       !.priceUpdatesCount = @ + 1]
      m1 == [closePrice |-> currentPrice, lastUpdateTimestamp |-> timestamp]
            @@ m0
      m2 == IF RGt(m1.openPrice, ZERO_BD)
            THEN [m1 EXCEPT
                    !.volatilityScore =
                      RTimes(RDiv(RMinus(m1.highPrice, m1.lowPrice),
                                  m1.openPrice), BD(100)),
                    !.trendDirection =
                      trendOf(RTimes(RDiv(RMinus(m1.closePrice, m1.openPrice),
                                          m1.openPrice), BD(100)))]
            ELSE m1
  IN [w EXCEPT !.marketConditions = Save(w.marketConditions, dayId, m2)]

updateProtocolHealthMetrics(stats, price) ==
  IF stats.totalCollateral > 0 /\ stats.totalDebt > 0
  THEN LET totalCollateralValue == RTimes(BD(stats.totalCollateral), BD(price))
           systemCollateralRatio == RDiv(totalCollateralValue, BD(stats.totalDebt))
           protocolHealth ==
             IF RGt(systemCollateralRatio, BD(2)) THEN BD(100)
             ELSE IF RGt(systemCollateralRatio, Rat(15, 10)) THEN BD(80)
             ELSE IF RGt(systemCollateralRatio, Rat(12, 10)) THEN BD(60)
             ELSE IF RGt(systemCollateralRatio, Rat(11, 10)) THEN BD(30)
             ELSE BD(10)
           liquidationRisk ==
             RDiv(BD(110), RTimes(systemCollateralRatio, BD(100)))
       IN [protocolHealth |-> protocolHealth,
           liquidationRisk |-> IF RGt(liquidationRisk, BD(100)) THEN BD(100)
                               ELSE liquidationRisk]
          @@ stats
  ELSE stats

updateProtocolStatsWithPrice(w, price, timestamp) ==
  IF ~Exists(w.protocolStats, GLOBAL_STATS_ID) THEN w
  ELSE [w EXCEPT !.protocolStats =
          Save(w.protocolStats, GLOBAL_STATS_ID,
               updateProtocolHealthMetrics(
                 [w.protocolStats[GLOBAL_STATS_ID] EXCEPT
                    !.lastUpdateTimestamp = timestamp],
                 price))]

(* handlePriceUpdate from the PriceUpdate record on: w is the store after  *)
(* the universal transaction of the event has been recorded               *)
updatePrice(w, hash, logIndex, timestamp, price) ==
  LET priceUpdateId == concatI32(hash, logIndex)
      currentPrice == BD(price)
      priceUpdate == [timestamp |-> timestamp, filPrice |-> price,
                      transactionHash |-> hash]
      recorded(w1) ==
        [w1 EXCEPT !.priceUpdates = Save(w1.priceUpdates, priceUpdateId, priceUpdate),
                   !.priceFeed = [previousPrice |-> currentPrice,
                                  previousTimestamp |-> timestamp]]
  IN recorded(updateProtocolStatsWithPrice(
                updateMarketConditions(w, currentPrice, timestamp),
                price, timestamp))

(* One LastGoodPriceUpdated event handled *)
PriceUpdated(w, hash, logIndex, timestamp, price) ==
  updatePrice(
    createUniversalTransaction(w, hash, timestamp,
      fromHexString(PRICE_FEED_ADDRESS), fromHexString(PRICE_FEED_ADDRESS),
      price, TX_SOURCE_CONTRACT_EVENT, "PRICE_UPDATE",
      ECOSYSTEM_PROTOCOL_NATIVE, logIndex),
    hash, logIndex, timestamp, price)

(* The BigDecimal fields the price handler writes *)
PriceDecimals == {"protocolHealth", "liquidationRisk", "volatilityScore"}

PriceUpdateCompleted(w, dayId, priceChangePercent) ==
  Complete(w,
           \/ priceChangePercent = DivisionByZero
           \/ Undefined(w.marketConditions[dayId], PriceDecimals)
           \/ /\ Exists(w.protocolStats, GLOBAL_STATS_ID)
              /\ Undefined(w.protocolStats[GLOBAL_STATS_ID], PriceDecimals),
           "handlePriceUpdate")

handlePriceUpdate(price) ==
  /\ failed = "none"
  /\ delivered < MaxProtocolEvents
  /\ delivered' = delivered + 1
  /\ LET e == EventAt(delivered)
     IN PriceUpdateCompleted(
          PriceUpdated(World, e[1], e[2], blockTimestamp(e[1]), price),
          BigIntDiv(blockTimestamp(e[1]), 86400),
          updateMarketAnalytics(priceFeed, BD(price)))
  /\ UNCHANGED <<build, call>>

-----------------------------------------------------------------------------
(* ecosystem/sushiswap.ts: the Account writes of the swap handler.  The    *)
(* DEXProfile, DEXTrade and PoolMetrics entities the handler also writes   *)
(* are not part of the state of this model.                                *)

(* Account.load(address), or a new Account that is not saved yet *)
getOrCreateAccount(w, address) ==
  IF Exists(w.accounts, address) THEN w.accounts[address]
  ELSE [NewAccount EXCEPT !.riskScore = BD(0), !.retentionScore = BD(0)]

(* sender and recipient are both loaded before either is saved *)
Swap(w, sender, recipient) ==
  LET s0 == getOrCreateAccount(w, sender)
      r0 == getOrCreateAccount(w, recipient)
      s1 == [s0 EXCEPT !.tokenTransferCount = @ + 1, !.dexActivityCount = @ + 1]
      w1 == [w EXCEPT !.accounts = Save(w.accounts, sender, s1)]
      r1 == [r0 EXCEPT !.dexActivityCount = @ + 1]
  IN [w1 EXCEPT !.accounts = Save(w1.accounts, recipient, r1)]

(* utils/helpers.ts, the price utilities *)
USDFC_ADDRESS == "0x80b98d3aa09ffff255c3ba4a241111ff1262f045"
WFIL_ADDRESS == "0x60e1773636cf5e4a227d9ac24f20feca034ee25a"
AXLUSDC_ADDRESS == "0xeb466342c4d449bc9f53a865d5cb90586f405215"
POOL_USDFC_AXLUSDC == "0x21ca72fe39095db9642ca9cc694fa056f906037f"

estimateUSDValue(tokenAddress, amount) ==
  LET amountDecimal == Rat(amount, DECIMAL_PRECISION)
  IN IF tokenAddress = USDFC_ADDRESS THEN RTimes(amountDecimal, Rat(99, 100))
     ELSE IF tokenAddress = WFIL_ADDRESS THEN RTimes(amountDecimal, Rat(131, 100))
     ELSE IF tokenAddress = AXLUSDC_ADDRESS THEN amountDecimal
     ELSE BD(0)

isBuyTrade(amount0, amount1, token0, token1) ==
  IF token0 = USDFC_ADDRESS THEN amount0 < 0
  ELSE IF token1 = USDFC_ADDRESS THEN amount1 < 0
  ELSE FALSE

(* The record getOrCreatePoolMetrics hands back; a new one is not saved *)
getOrCreatePoolMetrics(w, poolAddress, baseToken, quoteToken, feeTier, timestamp) ==
  IF Exists(w.poolMetrics, poolAddress) THEN w.poolMetrics[poolAddress]
  ELSE [poolAddress |-> poolAddress, baseToken |-> baseToken,
        quoteToken |-> quoteToken, feeTier |-> feeTier, createdAt |-> timestamp,
        volumeAllTimeUSD |-> BD(0), txCountAllTime |-> 0, buys24h |-> 0,
        sells24h |-> 0, lastUpdateTimestamp |-> timestamp]

(* updatePoolMetrics loads the record of the pool from the store *)
updatePoolMetrics(w, poolAddress, volumeUSD, isBuy, timestamp) ==
  IF ~Exists(w.poolMetrics, poolAddress) THEN w
  ELSE [w EXCEPT !.poolMetrics =
          Save(w.poolMetrics, poolAddress,
               [w.poolMetrics[poolAddress] EXCEPT
                  !.volumeAllTimeUSD = RPlus(@, volumeUSD),
                  !.txCountAllTime = @ + 1,
                  !.buys24h = IF isBuy THEN @ + 1 ELSE @,
                  !.sells24h = IF isBuy THEN @ ELSE @ + 1,
                  !.lastUpdateTimestamp = timestamp])]

getOrCreateDEXProfile(w, address) ==
  IF Exists(w.dexProfiles, address) THEN w.dexProfiles[address]
  ELSE [account |-> address, totalTrades |-> 0, totalVolume |-> 0]

(* handleSwap after the two accounts: the profile of the sender, the trade *)
(* and the metrics of the pool. The id of the trade is the hash, "-" and   *)
(* the log index read as hex digits; the log indexes of the model have one *)
(* digit, for which the string has an even length.                         *)
SwapTrade(w, hash, logIndex, timestamp, poolAddress, sender, amount0, amount1) ==
  LET p0 == getOrCreateDEXProfile(w, sender)
      volume == IF amount0 > 0 THEN amount0 ELSE Abs(amount1)
      p1 == [p0 EXCEPT !.totalTrades = @ + 1, !.totalVolume = @ + volume]
      w1 == [w EXCEPT !.dexProfiles = Save(w.dexProfiles, sender, p1)]
      baseToken == USDFC_ADDRESS
      isAxl == poolAddress = POOL_USDFC_AXLUSDC
      quoteToken == IF isAxl THEN AXLUSDC_ADDRESS ELSE WFIL_ADDRESS
      feeTier == IF isAxl THEN 100 ELSE 500
      isBuy == isBuyTrade(amount0, amount1, baseToken, quoteToken)
      inputToken == IF amount0 > 0 THEN baseToken ELSE quoteToken
      trade == [trader |-> sender, dexProfile |-> sender,
                tradeType |-> IF isBuy THEN "BUY" ELSE "SELL",
                inputToken |-> inputToken,
                outputToken |-> IF amount0 < 0 THEN baseToken ELSE quoteToken,
                inputAmount |-> Abs(amount0), outputAmount |-> Abs(amount1),
                volumeUSD |-> estimateUSDValue(inputToken, Abs(amount0)),
                poolAddress |-> poolAddress, poolFeeTier |-> feeTier,
                blockTimestamp |-> timestamp]
      w2 == [w1 EXCEPT !.dexTrades = Save(w1.dexTrades, <<hash, logIndex>>, trade)]
      \* the record the handler holds and never saves
      heldMetrics == getOrCreatePoolMetrics(w2, poolAddress, baseToken, quoteToken,
                                            feeTier, timestamp)
  IN updatePoolMetrics(w2, poolAddress, trade.volumeUSD, isBuy, timestamp)

(* The Swap events of the model are of the USDFC/axlUSDC pool and sell     *)
(* 1000 of USDFC for 990 of axlUSDC                                        *)
handleSwap(sender, recipient) ==
  /\ failed = "none"
  /\ delivered < MaxProtocolEvents
  /\ delivered' = delivered + 1
  /\ LET e == EventAt(delivered)
     IN Commit(SwapTrade(Swap(World, sender, recipient), e[1], e[2],
                         blockTimestamp(e[1]), POOL_USDFC_AXLUSDC, sender,
                         1000, -990))
  /\ UNCHANGED <<build, call, failed>>

-----------------------------------------------------------------------------
(* ecosystem/bridges.ts                                                    *)
(* The destination address and the payload hashes of an operation are      *)
(* stored as the event has them and read nowhere: they are left out.       *)

(* Bytes.fromHexString(commandId.toHex()): the 32 bytes of the command id, *)
(* never the 36 bytes of a transaction hash with a log index               *)
commandKey(commandId) == <<commandId>>

updateBridgeProfile(w, userAddress, timestamp) ==
  LET p0 == IF Exists(w.bridgeProfiles, userAddress) THEN w.bridgeProfiles[userAddress]
            ELSE [account |-> userAddress, totalBridgeOperations |-> 0,
                  totalBridgeVolume |-> 0, firstBridgeTimestamp |-> timestamp,
                  preferredBridge |-> "Axelar"]
      p1 == [lastBridgeTimestamp |-> timestamp]
            @@ [p0 EXCEPT !.totalBridgeOperations = @ + 1]
  IN [w EXCEPT !.bridgeProfiles = Save(w.bridgeProfiles, userAddress, p1)]

(* updateEcosystemStats of bridges.ts: the global record only, and only    *)
(* when it is stored                                                       *)
bridgeUpdateEcosystemStats(w, symbol, amount, timestamp) ==
  IF ~Exists(w.ecosystemStats, "global") THEN w
  ELSE
    LET s0 == w.ecosystemStats["global"]
        s1 == IF symbol = "USDFC"
              THEN [s0 EXCEPT !.bridgeVolume = @ + amount,
                              !.totalEcosystemVolume = @ + amount]
              ELSE s0
    IN [w EXCEPT !.ecosystemStats = Save(w.ecosystemStats, "global", s1)]

(* new BridgeOperation(hash.concatI32(logIndex)) of an outgoing call *)
OutgoingOperation(hash, timestamp, sender, status) ==
  [transaction |-> hash, timestamp |-> timestamp, sender |-> sender,
   bridge |-> "Axelar", sourceChain |-> "Filecoin",
   destinationChain |-> "Ethereum", status |-> status]

ContractCall(w, hash, logIndex, timestamp, sender) ==
  updateBridgeProfile(
    [w EXCEPT !.bridgeOperations =
       Save(w.bridgeOperations, concatI32(hash, logIndex),
            OutgoingOperation(hash, timestamp, sender, "Initiated"))],
    sender, timestamp)

TokenOperation(w, hash, logIndex, timestamp, sender, symbol, amount, status) ==
  bridgeUpdateEcosystemStats(
    updateBridgeProfile(
      [w EXCEPT !.bridgeOperations =
         Save(w.bridgeOperations, concatI32(hash, logIndex),
              [tokenSymbol |-> symbol, amount |-> amount]
              @@ OutgoingOperation(hash, timestamp, sender, status))],
      sender, timestamp),
    symbol, amount, timestamp)

ContractCallWithToken(w, hash, logIndex, timestamp, sender, symbol, amount) ==
  TokenOperation(w, hash, logIndex, timestamp, sender, symbol, amount, "Initiated")

TokenSent(w, hash, logIndex, timestamp, sender, symbol, amount) ==
  TokenOperation(w, hash, logIndex, timestamp, sender, symbol, amount, "Sent")

ContractCallApproved(w, hash, timestamp, commandId, sourceAddress) ==
  LET operationId == commandKey(commandId)
      o0 == IF Exists(w.bridgeOperations, operationId)
            THEN w.bridgeOperations[operationId]
            ELSE [transaction |-> hash, timestamp |-> timestamp, bridge |-> "Axelar"]
      o1 == [sourceChain |-> "Ethereum", destinationChain |-> "Filecoin",
             sender |-> sourceAddress, status |-> "Approved"] @@ o0
  IN [w EXCEPT !.bridgeOperations = Save(w.bridgeOperations, operationId, o1)]

ContractCallExecuted(w, commandId) ==
  LET operationId == commandKey(commandId)
  IN IF Exists(w.bridgeOperations, operationId)
     THEN [w EXCEPT !.bridgeOperations =
             Save(w.bridgeOperations, operationId,
                  [w.bridgeOperations[operationId] EXCEPT !.status = "Executed"])]
     ELSE w

BridgeEvent(w) ==
  /\ failed = "none"
  /\ delivered < MaxBridgeEvents
  /\ delivered' = delivered + 1
  /\ Commit(w)
  /\ UNCHANGED <<build, call, failed>>

handleContractCall(sender) ==
  LET e == EventAt(delivered)
  IN BridgeEvent(ContractCall(World, e[1], e[2], blockTimestamp(e[1]), sender))

handleContractCallWithToken(sender, symbol, amount) ==
  LET e == EventAt(delivered)
  IN BridgeEvent(ContractCallWithToken(World, e[1], e[2], blockTimestamp(e[1]),
                                       sender, symbol, amount))

handleTokenSent(sender, symbol, amount) ==
  LET e == EventAt(delivered)
  IN BridgeEvent(TokenSent(World, e[1], e[2], blockTimestamp(e[1]), sender,
                           symbol, amount))

handleContractCallApproved(commandId, sourceAddress) ==
  LET e == EventAt(delivered)
  IN BridgeEvent(ContractCallApproved(World, e[1], blockTimestamp(e[1]),
                                      commandId, sourceAddress))

handleContractCallExecuted(commandId) ==
  BridgeEvent(ContractCallExecuted(World, commandId))

-----------------------------------------------------------------------------
(* unnamed/part_003: the ecosystem transfer classifier                     *)

(* The address book; "" is an address still to be determined *)
KnownContracts ==
  [USDFC_TOKEN |-> "0x80B9", TROVE_MANAGER |-> "", STABILITY_POOL |-> "",
   STAKING |-> "", SUSHISWAP_ROUTER_1 |-> "0x804b",
   SUSHISWAP_ROUTER_2 |-> "0xd560", SUSHISWAP_V3_FACTORY |-> "0xc35D",
   SUSHISWAP_POOL_USDFC_WFIL |-> "0x4e07",
   SUSHISWAP_POOL_USDFC_AXLUSDC |-> "0x21ca",
   SECURED_FINANCE_LENDING_POOL |-> "", SECURED_FINANCE_ORDER_BOOK |-> "",
   AXELAR_GATEWAY |-> "", CELER_BRIDGE |-> "", SQUID_ROUTER |-> "",
   LIGHTHOUSE_PAYMENTS |-> ""]

isDEX(address) ==
  LET addr == toLowerCase(toHexString(address))
  IN \/ addr = toLowerCase(KnownContracts.SUSHISWAP_ROUTER_1)
     \/ addr = toLowerCase(KnownContracts.SUSHISWAP_ROUTER_2)
     \/ addr = toLowerCase(KnownContracts.SUSHISWAP_V3_FACTORY)
     \/ addr = toLowerCase(KnownContracts.SUSHISWAP_POOL_USDFC_WFIL)
     \/ addr = toLowerCase(KnownContracts.SUSHISWAP_POOL_USDFC_AXLUSDC)

isBridge(address) ==
  LET addr == toLowerCase(toHexString(address))
  IN \/ addr = toLowerCase(KnownContracts.AXELAR_GATEWAY)
     \/ addr = toLowerCase(KnownContracts.CELER_BRIDGE)
     \/ addr = toLowerCase(KnownContracts.SQUID_ROUTER)

isLending(address) ==
  LET addr == toLowerCase(toHexString(address))
  IN \/ addr = toLowerCase(KnownContracts.SECURED_FINANCE_LENDING_POOL)
     \/ addr = toLowerCase(KnownContracts.SECURED_FINANCE_ORDER_BOOK)

isStoragePayment(address) ==
  toLowerCase(toHexString(address)) = toLowerCase(KnownContracts.LIGHTHOUSE_PAYMENTS)

isProtocol(address) ==
  LET addr == toLowerCase(toHexString(address))
  IN \/ addr = toLowerCase(KnownContracts.USDFC_TOKEN)
     \/ addr = toLowerCase(KnownContracts.TROVE_MANAGER)
     \/ addr = toLowerCase(KnownContracts.STABILITY_POOL)
     \/ addr = toLowerCase(KnownContracts.STAKING)

(* new TransferClassification() with its two fields assigned *)
TransferClassification(category, ecosystem) ==
  [category |-> category, ecosystem |-> ecosystem]

(* TransferClassifier.classify *)
classify(from, to, amount) ==
  IF from = fromHexString(ZERO_ADDRESS)
    THEN TransferClassification("MINT", "PROTOCOL_NATIVE")
  ELSE IF to = fromHexString(ZERO_ADDRESS)
    THEN TransferClassification("BURN", "PROTOCOL_NATIVE")
  ELSE IF isDEX(to) \/ isDEX(from)
    THEN TransferClassification("DEX_SWAP", "DEX_ECOSYSTEM")
  ELSE IF isBridge(to) \/ isBridge(from)
    THEN TransferClassification("BRIDGE_TRANSFER", "BRIDGE_ECOSYSTEM")
  ELSE IF isLending(to) \/ isLending(from)
    THEN TransferClassification("PROTOCOL_INTEGRATION", "DEFI_ECOSYSTEM")
  ELSE IF isStoragePayment(to)
    THEN TransferClassification("STORAGE_PAYMENT", "STORAGE_PAYMENT")
  ELSE IF isProtocol(to) \/ isProtocol(from)
    THEN TransferClassification("PROTOCOL_INTEGRATION", "PROTOCOL_NATIVE")
  ELSE IF amount > INSTITUTIONAL_THRESHOLD
    THEN TransferClassification("INSTITUTIONAL_OPERATION",
                                "INSTITUTIONAL_ECOSYSTEM")
  ELSE TransferClassification("P2P_TRANSFER", "P2P_ECOSYSTEM")

(* The classification functions applied to one transfer *)
Classified(fn, result) == [call EXCEPT !.fn = fn] @@ [result |-> result]

callClassify ==
  /\ call.fn = "none"
  /\ call' = Classified("classify", classify(call.from, call.to, call.value))
  /\ UNCHANGED <<stores, failed, build, delivered>>

callGetConfigurableTransferType ==
  /\ call.fn = "none"
  /\ call' = Classified("getConfigurableTransferType",
                        getConfigurableTransferType(call.from, call.to, call.value))
  /\ UNCHANGED <<stores, failed, build, delivered>>

callClassifyTransferType ==
  /\ call.fn = "none"
  /\ call' = Classified("classifyTransferType",
                        classifyTransferType(call.from, call.to, call.value))
  /\ UNCHANGED <<stores, failed, build, delivered>>

(* helpers.ts: the ecosystem classification utility                        *)

isZeroAddress(address) == address = fromHexString(ZERO_ADDRESS)

(* helpers.ts: the validation of a transfer; no handler calls it           *)
validateTransfer(from, to, value) ==
  IF value < 0 THEN FALSE
  ELSE IF from = to /\ ~isZeroAddress(from) THEN FALSE
  ELSE TRUE

classifyEcosystemType(from, to, value) ==
  IF isZeroAddress(from) \/ isZeroAddress(to) THEN "PROTOCOL_NATIVE"
  ELSE IF value > INSTITUTIONAL_THRESHOLD THEN "INSTITUTIONAL_ECOSYSTEM"
  ELSE "P2P_ECOSYSTEM"

safeDivision(numerator, denominator) ==
  IF denominator = 0 THEN ZERO_BD ELSE Rat(numerator, denominator)

classifyUserType(totalActivity, protocolActivity, dexActivity, bridgeActivity, defiActivity, totalVolume) ==
  IF totalActivity = 0 THEN "RETAIL_USER"
  ELSE IF totalVolume > INSTITUTIONAL_THRESHOLD THEN "INSTITUTIONAL_USER"
  ELSE IF RGt(safeDivision(dexActivity, totalActivity), Rat(6, 10)) THEN "DEX_TRADER"
  ELSE IF RGt(safeDivision(bridgeActivity, totalActivity), Rat(4, 10)) THEN "BRIDGE_USER"
  ELSE IF RGt(safeDivision(defiActivity, totalActivity), Rat(5, 10)) THEN "DEFI_USER"
  ELSE IF RGt(safeDivision(protocolActivity, totalActivity), Rat(8, 10)) THEN "PROTOCOL_NATIVE"
  ELSE IF totalActivity > 100 THEN "POWER_USER"
  ELSE "RETAIL_USER"

callClassifyEcosystemType ==
  /\ call.fn = "none"
  /\ call' = Classified("classifyEcosystemType",
                        classifyEcosystemType(call.from, call.to, call.value))
  /\ UNCHANGED <<stores, failed, build, delivered>>

-----------------------------------------------------------------------------
(* The token contract's events: one deployment runs one of the two token   *)
(* mappings.  An event is identified by its transaction hash and log       *)
(* index; the same event may be delivered again.                           *)

Events == {<<"0xe1", 0>>, <<"0xe1", 1>>, <<"0xe2", 0>>}

(* from and to of a Transfer: a mint, a payment, a self-payment, a burn *)
TransferParties ==
  {<<fromHexString(ZERO_ADDRESS), UserA>>, <<UserA, UserB>>,
   <<UserA, UserA>>, <<UserB, fromHexString(ZERO_ADDRESS)>>}
Holders == {UserB}
Values == {1, 2}

Init ==
  /\ accounts = EmptyStore
  /\ transactions = EmptyStore
  /\ transfers = EmptyStore
  /\ protocolStats = EmptyStore
  /\ ecosystemStats = EmptyStore
  /\ dailyStats = EmptyStore
  /\ troves = EmptyStore
  /\ troveOperations = EmptyStore
  /\ priceUpdates = EmptyStore
  /\ marketConditions = EmptyStore
  /\ protocolStakes = EmptyStore
  /\ stakeOperations = EmptyStore
  /\ stabilityDeposits = EmptyStore
  /\ stabilityOperations = EmptyStore
  /\ liquidations = EmptyStore
  /\ bridgeOperations = EmptyStore
  /\ bridgeProfiles = EmptyStore
  /\ dexProfiles = EmptyStore
  /\ dexTrades = EmptyStore
  /\ poolMetrics = EmptyStore
  /\ priceFeed = [previousPrice |-> BD(0), previousTimestamp |-> 0]
  /\ failed = "none"
  /\ build \in {"final", "mvp"}
  /\ delivered = 0
  /\ call = NoCall

Next ==
  \/ \E e \in Events, p \in TransferParties, value \in Values :
       handleTransferMVP(e[1], e[2], blockTimestamp(e[1]), p[1], p[2], value)
  \/ \E e \in Events :
       handleApprovalMVP(e[1], e[2], blockTimestamp(e[1]), UserA, UserB)
  \/ \E e \in Events, p \in TransferParties, value \in Values :
       handleTransferFinal(e[1], e[2], blockTimestamp(e[1]), p[1], p[2], value)
  \/ \E account \in Holders, amount \in Values : handleMint(account, amount)
  \/ \E account \in Holders, amount \in Values : handleBurn(account, amount)

Spec == Init /\ [][Next]_vars

(* Transfer events as a handler can be handed them: the value is a signed  *)
(* BigInt                                                                  *)
SignedValues == {-1, 1}

NextSigned ==
  \/ \E e \in Events, p \in TransferParties, value \in SignedValues :
       handleTransferMVP(e[1], e[2], blockTimestamp(e[1]), p[1], p[2], value)
  \/ \E e \in Events, p \in TransferParties, value \in SignedValues :
       handleTransferFinal(e[1], e[2], blockTimestamp(e[1]), p[1], p[2], value)

SpecSigned == Init /\ [][NextSigned]_vars

-----------------------------------------------------------------------------
(* The events of the protocol contracts, handled by the mappings of        *)
(* trove-manager.ts (trove handlers and the token handler of that file)    *)
(* and of sushiswap.ts                                                     *)

ProtocolTransfers == {<<UserA, UserB, 1>>, <<UserA, UserA, 2>>}
Borrowers == {UserA, UserB}
(* collateral and debt of a TroveUpdated event; <<0, 0>> closes the trove *)
TroveInputs == {<<1000, 500>>, <<1000, 600>>, <<0, 0>>, <<0, 500>>}
Prices == {0, 2}
SwapParties == {<<UserA, UserA>>, <<UserA, UserB>>}
(* liquidated debt and collateral of a Liquidation event *)
LiquidationInputs == {<<500, 1000>>}

InitProtocol ==
  /\ accounts = EmptyStore
  /\ transactions = EmptyStore
  /\ transfers = EmptyStore
  /\ protocolStats = EmptyStore
  /\ ecosystemStats = EmptyStore
  /\ dailyStats = EmptyStore
  /\ troves = EmptyStore
  /\ troveOperations = EmptyStore
  /\ priceUpdates = EmptyStore
  /\ marketConditions = EmptyStore
  /\ protocolStakes = EmptyStore
  /\ stakeOperations = EmptyStore
  /\ stabilityDeposits = EmptyStore
  /\ stabilityOperations = EmptyStore
  /\ liquidations = EmptyStore
  /\ bridgeOperations = EmptyStore
  /\ bridgeProfiles = EmptyStore
  /\ dexProfiles = EmptyStore
  /\ dexTrades = EmptyStore
  /\ poolMetrics = EmptyStore
  /\ priceFeed = [previousPrice |-> BD(0), previousTimestamp |-> 0]
  /\ failed = "none"
  /\ build = "mvp"
  /\ delivered = 0
  /\ call = NoCall

NextProtocol ==
  \/ \E p \in ProtocolTransfers :
       LET e == EventAt(delivered)
       IN handleTransferMVP(e[1], e[2], blockTimestamp(e[1]), p[1], p[2], p[3])
  \/ \E borrower \in Borrowers, t \in TroveInputs :
       handleTroveUpdated(borrower, t[1], t[2], t[1])
  \/ \E borrower \in Borrowers : handleTroveLiquidated(borrower, 500)
  \/ \E l \in LiquidationInputs : handleLiquidation(l[1], l[2])
  \/ \E p \in SwapParties : handleSwap(p[1], p[2])
  \/ \E price \in Prices : handlePriceUpdate(price)

SpecProtocol == InitProtocol /\ [][NextProtocol]_vars

-----------------------------------------------------------------------------
(* The life of one trove: the events of the trove manager for one borrower *)

(* Collateral and debt of TroveUpdated events whose ratios lie below, on   *)
(* and above each breakpoint of the health score, one with a higher debt   *)
(* and two without debt                                                    *)
BandInputs ==
  {<<1099, 1000>>, <<1100, 1000>>, <<1249, 1000>>, <<1250, 1000>>,
   <<1499, 1000>>, <<1500, 1000>>, <<1999, 1000>>, <<2000, 1000>>,
   <<3000, 1000>>, <<3000, 2000>>, <<1000, 0>>, <<0, 0>>}

NextTroves ==
  \/ \E t \in BandInputs : handleTroveUpdated(UserA, t[1], t[2], t[1])
  \/ handleTroveLiquidated(UserA, 500)

SpecTroves == InitProtocol /\ [][NextTroves]_vars

(* The bridge: calls of the gateway and token transfers of UserA, with the *)
(* transfers of the token that store the ecosystem statistics              *)
CommandIds == {"0xc1", "0xc2"}
BridgedTokens == {<<"USDFC", 5>>, <<"WFIL", 7>>}

NextBridges ==
  \/ \E p \in ProtocolTransfers :
       LET e == EventAt(delivered)
       IN handleTransferMVP(e[1], e[2], blockTimestamp(e[1]), p[1], p[2], p[3])
  \/ handleContractCall(UserA)
  \/ \E t \in BridgedTokens : handleContractCallWithToken(UserA, t[1], t[2])
  \/ \E t \in BridgedTokens : handleTokenSent(UserA, t[1], t[2])
  \/ \E c \in CommandIds : handleContractCallApproved(c, "0xsource")
  \/ \E c \in CommandIds : handleContractCallExecuted(c)

SpecBridges == InitProtocol /\ [][NextBridges]_vars

(* The scored records of one user: a transfer above the volume that caps   *)
(* the influence score, troves with ratios from 10 to 300, stakes and      *)
(* deposits below and above the 1000 tokens that cap the size score        *)
ScoreTransfers == {<<UserA, UserB, 20000 * DECIMAL_PRECISION>>}
ScoreTroves == {<<100, 1000>>, <<3000, 1000>>, <<1000, 0>>}
ScoreBalances == {500, 2000 * DECIMAL_PRECISION}

NextScores ==
  \/ \E p \in ScoreTransfers :
       LET e == EventAt(delivered)
       IN handleTransferMVP(e[1], e[2], blockTimestamp(e[1]), p[1], p[2], p[3])
  \/ \E t \in ScoreTroves : handleTroveUpdated(UserA, t[1], t[2], t[1])
  \/ handleTroveLiquidated(UserA, 1000)
  \/ \E a \in ScoreBalances : handleStakeChanged(UserA, a)
  \/ \E a \in ScoreBalances : handleUserDepositChanged(UserA, a)

SpecScores == InitProtocol /\ [][NextScores]_vars

(* The staking and stability pool events of one user: a stake or deposit   *)
(* is set to one of two amounts, gains are claimed with and without a gain *)
PositionAmounts == {200, 500}
GainAmounts == {<<0, 0>>, <<3, 2>>}

NextPositions ==
  \/ \E a \in PositionAmounts : handleStakeChanged(UserA, a)
  \/ \E g \in GainAmounts : handleStakingGainsWithdrawn(UserA, g[1], g[2])
  \/ \E a \in PositionAmounts : handleUserDepositChanged(UserA, a)
  \/ \E g \in GainAmounts : handleFILGainWithdrawn(UserA, g[1], g[2])

SpecPositions == InitProtocol /\ [][NextPositions]_vars

-----------------------------------------------------------------------------
(* The classification functions on their own: one transfer is drawn, then  *)
(* one of the functions is applied to it                                   *)

(* the zero address, a user, the three protocol contracts of the token     *)
(* handlers, the token contract and a pool of the address book, and the    *)
(* DEX and bridge entries of the final token handler                       *)
ClassifiedAddresses ==
  {fromHexString(ZERO_ADDRESS), UserA, UserB,
   fromHexString(TROVE_MANAGER_ADDRESS),
   fromHexString(STABILITY_POOL_ADDRESS),
   fromHexString(PROTOCOL_TOKEN_STAKING_ADDRESS),
   fromHexString(KnownContracts.USDFC_TOKEN),
   fromHexString(KnownContracts.SUSHISWAP_POOL_USDFC_WFIL),
   fromHexString(KnownDexPlaceholder), fromHexString(KnownBridgePlaceholder)}
ClassifiedValues ==
  {DECIMAL_PRECISION, INSTITUTIONAL_THRESHOLD, INSTITUTIONAL_THRESHOLD + 1}

InitClassify ==
  /\ accounts = EmptyStore
  /\ transactions = EmptyStore
  /\ transfers = EmptyStore
  /\ protocolStats = EmptyStore
  /\ ecosystemStats = EmptyStore
  /\ dailyStats = EmptyStore
  /\ troves = EmptyStore
  /\ troveOperations = EmptyStore
  /\ priceUpdates = EmptyStore
  /\ marketConditions = EmptyStore
  /\ protocolStakes = EmptyStore
  /\ stakeOperations = EmptyStore
  /\ stabilityDeposits = EmptyStore
  /\ stabilityOperations = EmptyStore
  /\ liquidations = EmptyStore
  /\ bridgeOperations = EmptyStore
  /\ bridgeProfiles = EmptyStore
  /\ dexProfiles = EmptyStore
  /\ dexTrades = EmptyStore
  /\ poolMetrics = EmptyStore
  /\ priceFeed = [previousPrice |-> BD(0), previousTimestamp |-> 0]
  /\ failed = "none"
  /\ build = "final"
  /\ delivered = 0
  /\ call \in [fn : {"none"}, from : ClassifiedAddresses,
               to : ClassifiedAddresses, value : ClassifiedValues]

NextClassify ==
  \/ callClassify
  \/ callGetConfigurableTransferType
  \/ callClassifyTransferType
  \/ callClassifyEcosystemType

SpecClassify == InitClassify /\ [][NextClassify]_vars

-----------------------------------------------------------------------------
(* Reading an aggregate of an account that may not exist yet: a new        *)
(* account starts with every aggregate at zero                             *)

BalanceOf(w, a) == IF Exists(w.accounts, a) THEN w.accounts[a].usdfcBalance ELSE 0
CountOf(w, a) == IF Exists(w.accounts, a) THEN w.accounts[a].totalTransactionCount ELSE 0
VolumeInOf(w, a) == IF Exists(w.accounts, a) THEN w.accounts[a].totalVolumeIn ELSE 0
VolumeOutOf(w, a) == IF Exists(w.accounts, a) THEN w.accounts[a].totalVolumeOut ELSE 0

RECURSIVE SumBalances(_, _)
SumBalances(w, S) ==
  IF S = {} THEN 0
  ELSE LET a == CHOOSE x \in S : TRUE
       IN BalanceOf(w, a) + SumBalances(w, S \ {a})

Addresses == {fromHexString(ZERO_ADDRESS), UserA, UserB}

(* The Transfer handler of the deployed token mapping, as a function of    *)
(* the store                                                               *)
DeployedTransfer(w, e, from, to, value) ==
  IF build = "final"
  THEN TransferFinal(w, e[1], e[2], blockTimestamp(e[1]), from, to, value)
  ELSE TransferMVP(w, e[1], e[2], blockTimestamp(e[1]), from, to, value)

(* The aggregates claim C1 speaks of *)
Aggregates(w) ==
  <<w.accounts, w.protocolStats, w.ecosystemStats, w.dailyStats>>

-----------------------------------------------------------------------------
(* C1: from every reachable prior state and for every Transfer event,      *)
(* handling the event twice (same hash and log index, same arguments)      *)
(* leaves every account and the global and daily statistics as handling    *)
(* it once does.                                                           *)
C1_ReplayIsIdempotent ==
  \A e \in Events, p \in TransferParties, value \in Values :
    LET once == DeployedTransfer(World, e, p[1], p[2], value)
        twice == DeployedTransfer(once, e, p[1], p[2], value)
    IN Aggregates(twice) = Aggregates(once)

(* An event has been handled twice: the second delivery of the mint of 1   *)
(* to UserA found its Transaction record and credited the balance again.   *)
C1_ReplayHappened ==
  /\ delivered = 2
  /\ DOMAIN transactions = {<<"0xe1", 0>>}
  /\ Exists(accounts, UserA)
  /\ accounts[UserA].usdfcBalance = 2
  /\ transactions[<<"0xe1", 0>>].value = 1

-----------------------------------------------------------------------------
(* C4: from every reachable state, a Transfer event whose sender and       *)
(* receiver both differ from the zero address changes the balances by a    *)
(* total of 0: the sender loses exactly the value the receiver gains, and  *)
(* no other balance moves.                                                 *)
C4_BalancesConserved ==
  \A e \in Events, from \in {UserA, UserB}, to \in {UserA, UserB}, value \in Values :
    LET after == DeployedTransfer(World, e, from, to, value)
    IN /\ SumBalances(after, DOMAIN after.accounts) = SumBalances(World, DOMAIN accounts)
       /\ from # to =>
            /\ BalanceOf(after, from) = BalanceOf(World, from) - value
            /\ BalanceOf(after, to) = BalanceOf(World, to) + value
       /\ from = to => BalanceOf(after, from) = BalanceOf(World, from)
       /\ \A a \in Addresses \ {from, to} : BalanceOf(after, a) = BalanceOf(World, a)

(* UserA was minted 2 and then paid 1 to UserB: 1 + 1 is still 2. *)
C4_PaymentHandled ==
  /\ delivered = 2
  /\ \E k \in DOMAIN transfers :
       /\ transfers[k].from = UserA
       /\ transfers[k].to = UserB
       /\ transfers[k].value = 1
  /\ Exists(accounts, UserA) /\ accounts[UserA].usdfcBalance = 1
  /\ Exists(accounts, UserB) /\ accounts[UserB].usdfcBalance = 1

-----------------------------------------------------------------------------
(* C6: from every reachable state, one Transfer event from A to a          *)
(* different B raises totalTransactionCount of A and of B by exactly 1,    *)
(* adds the value to totalVolumeOut of A and to totalVolumeIn of B, and    *)
(* changes no other counter of any account.                                *)
C6_EachSideCreditedOnce ==
  \A e \in Events, value \in Values :
    LET after == DeployedTransfer(World, e, UserA, UserB, value)
    IN /\ CountOf(after, UserA) = CountOf(World, UserA) + 1
       /\ CountOf(after, UserB) = CountOf(World, UserB) + 1
       /\ VolumeOutOf(after, UserA) = VolumeOutOf(World, UserA) + value
       /\ VolumeInOf(after, UserB) = VolumeInOf(World, UserB) + value
       /\ VolumeInOf(after, UserA) = VolumeInOf(World, UserA)
       /\ VolumeOutOf(after, UserB) = VolumeOutOf(World, UserB)
       /\ \A a \in Addresses \ {UserA, UserB} :
            /\ CountOf(after, a) = CountOf(World, a)
            /\ VolumeInOf(after, a) = VolumeInOf(World, a)
            /\ VolumeOutOf(after, a) = VolumeOutOf(World, a)

(* The final token mapping has handled one payment of 2 from UserA to      *)
(* UserB, moved the balances, and left every counter at zero.              *)
C6_PaymentWithoutActivity ==
  /\ build = "final"
  /\ delivered = 1
  /\ \E k \in DOMAIN transfers :
       transfers[k].from = UserA /\ transfers[k].to = UserB /\ transfers[k].value = 2
  /\ accounts[UserB].usdfcBalance = 2
  /\ accounts[UserA].totalTransactionCount = 0
  /\ accounts[UserB].totalTransactionCount = 0
  /\ accounts[UserA].totalVolumeOut = 0
  /\ accounts[UserB].totalVolumeIn = 0

-----------------------------------------------------------------------------
(* C7: in the deployment whose token handler feeds the universal           *)
(* transaction hub, when every event handled so far was handled once, the  *)
(* DailyEcosystemStats record of each day counts exactly the events whose  *)
(* timestamp falls in that day (floor(timestamp / 86400)) and its volume   *)
(* is the sum of their values; a day without events has no record.  With   *)
(* N transfer events in a day this is a count of N and the sum of the N    *)
(* values.                                                                 *)
EventsOfDay(day) ==
  {k \in DOMAIN transactions : transactions[k].blockTimestamp \div 86400 = day}

RECURSIVE SumValues(_)
SumValues(S) ==
  IF S = {} THEN 0
  ELSE LET k == CHOOSE x \in S : TRUE
       IN transactions[k].value + SumValues(S \ {k})

-----------------------------------------------------------------------------
(* C8: once a Transaction record exists for a key (hash, log index), a     *)
(* later creation of the transaction for that key leaves the ledger as it  *)
(* was, whatever the parties, value, timestamp, category and ecosystem of  *)
(* the later call: the record keeps every field and no record is added.    *)
LaterParties == {<<UserB, UserA>>, <<fromHexString(ZERO_ADDRESS), UserB>>}
LaterValues == {0, 3}
LaterClasses ==
  {<<0, TX_CATEGORY_TRANSFER, ECOSYSTEM_PROTOCOL_NATIVE>>,
   <<86400, TX_CATEGORY_APPROVAL, ECOSYSTEM_DEX_ECOSYSTEM>>}

C8_LedgerWriteOnce ==
  \A k \in DOMAIN transactions, p \in LaterParties, value \in LaterValues,
     c \in LaterClasses :
    LET later ==
          IF build = "final"
          THEN createTransaction(World, k[1], k[2], c[1], p[1], p[2], value)
          ELSE createUniversalTransaction(World, k[1], c[1], p[1], p[2],
                 value, TX_SOURCE_CONTRACT_EVENT, c[2], c[3], k[2])
    IN later.transactions = transactions

(* A key was delivered a second time with another value: the Transfer      *)
(* entity, which is rewritten on every delivery, shows the later value,    *)
(* the Transaction record still shows the first.                           *)
C8_LaterCallDiffered ==
  \E k \in DOMAIN transactions \cap DOMAIN transfers :
    /\ transactions[k].value # transfers[k].value
    /\ transactions[k].from # transfers[k].from

-----------------------------------------------------------------------------
(* Troves and the active trove count                                       *)

(* The stored status of a borrower's trove; "NONE" when no trove is stored *)
StatusOf(w, borrower) ==
  IF Exists(w.troves, borrower) THEN w.troves[borrower].status ELSE "NONE"

ActiveTroveCount(w) == w.protocolStats[GLOBAL_STATS_ID].activeTroveCount

(* The status moved between ACTIVE and a status that is not ACTIVE *)
IsActiveTransition(before, after) == (before = "ACTIVE") # (after = "ACTIVE")

(* C2: when ProtocolStats exists, a TroveUpdated or TroveLiquidated event  *)
(* changes activeTroveCount only if the stored status of the handled trove *)
(* moves between ACTIVE and a status that is not ACTIVE in that step (a    *)
(* borrower without a trove counts as not ACTIVE); an event that leaves    *)
(* the status the same leaves activeTroveCount unchanged.                  *)
C2_CountChangesOnlyOnTransition ==
  Exists(protocolStats, GLOBAL_STATS_ID) =>
    \A borrower \in Borrowers :
      /\ \A t \in TroveInputs :
           LET e == EventAt(delivered)
               after == TroveUpdated(World, e[1], e[2], blockTimestamp(e[1]),
                                     borrower, t[1], t[2], t[1])
           IN ActiveTroveCount(after) # ActiveTroveCount(World)
                => IsActiveTransition(StatusOf(World, borrower),
                                      StatusOf(after, borrower))
      /\ LET e == EventAt(delivered)
             after == TroveLiquidated(World, e[1], e[2], blockTimestamp(e[1]),
                                      borrower, 500)
         IN ActiveTroveCount(after) # ActiveTroveCount(World)
              => IsActiveTransition(StatusOf(World, borrower),
                                    StatusOf(after, borrower))

(* C2, the case reached: the first event of UserA's trove carried debt 0   *)
(* while ProtocolStats existed, and the active count went below zero       *)
C2_CountMovedWithoutTransition ==
  /\ Exists(protocolStats, GLOBAL_STATS_ID)
  /\ Exists(troves, UserA)
  /\ troves[UserA].operationCount = 1
  /\ troves[UserA].status = "CLOSED_BY_OWNER"
  /\ protocolStats[GLOBAL_STATS_ID].totalTroveCount = 1
  /\ protocolStats[GLOBAL_STATS_ID].activeTroveCount = -1

(* C3: when ProtocolStats exists, the first TroveUpdated event of a        *)
(* borrower without a Trove record, with debt > 0, increases               *)
(* activeTroveCount by exactly 1, and a TroveUpdated event with debt = 0   *)
(* for an ACTIVE trove decreases it by exactly 1.                          *)
C3_OpenAndCloseMoveCountByOne ==
  Exists(protocolStats, GLOBAL_STATS_ID) =>
    \A borrower \in Borrowers, t \in TroveInputs :
      LET e == EventAt(delivered)
          after == TroveUpdated(World, e[1], e[2], blockTimestamp(e[1]),
                                borrower, t[1], t[2], t[1])
      IN /\ (~Exists(troves, borrower) /\ t[2] > 0)
              => ActiveTroveCount(after) = ActiveTroveCount(World) + 1
         /\ (StatusOf(World, borrower) = "ACTIVE" /\ t[2] = 0)
              => ActiveTroveCount(after) = ActiveTroveCount(World) - 1

(* C3, the case reached: UserA's trove was opened with debt 500 while      *)
(* ProtocolStats existed, and the active count is still 0                  *)
C3_OpenedButNotCounted ==
  /\ Exists(protocolStats, GLOBAL_STATS_ID)
  /\ Exists(troves, UserA)
  /\ troves[UserA].operationCount = 1
  /\ troves[UserA].status = "ACTIVE"
  /\ troves[UserA].debt = 500
  /\ protocolStats[GLOBAL_STATS_ID].totalTroveCount = 1
  /\ protocolStats[GLOBAL_STATS_ID].activeTroveCount = 0

-----------------------------------------------------------------------------
(* Account volumes                                                         *)

(* C5: in every reachable state every Account record has                   *)
(* netVolume = totalVolumeIn - totalVolumeOut, including an account that   *)
(* was sender and receiver of the same event.                              *)
C5_NetVolumeIsInMinusOut ==
  \A a \in DOMAIN accounts :
    accounts[a].netVolume = accounts[a].totalVolumeIn - accounts[a].totalVolumeOut

(* C5, the case reached: UserA paid UserB, took part in a swap, and was    *)
(* sender and receiver of one trove event                                  *)
C5_VolumesMoved ==
  /\ Exists(accounts, UserA)
  /\ Exists(troves, UserA)
  /\ accounts[UserA].totalVolumeOut > accounts[UserA].totalVolumeIn
  /\ accounts[UserA].totalVolumeIn > 0
  /\ accounts[UserA].dexActivityCount > 0
  /\ accounts[UserA].netVolume < 0

-----------------------------------------------------------------------------
(* Classification of a transfer                                            *)

(* The rule a transfer falls under with the priority zero address, known   *)
(* protocol contract, known DEX address, known bridge address, large       *)
(* value, default                                                          *)
FirstRule(isZero, isProtocolSide, isDexSide, isBridgeSide, value) ==
  IF isZero THEN "ZERO"
  ELSE IF isProtocolSide THEN "PROTOCOL"
  ELSE IF isDexSide THEN "DEX"
  ELSE IF isBridgeSide THEN "BRIDGE"
  ELSE IF value > INSTITUTIONAL_THRESHOLD THEN "LARGE"
  ELSE "DEFAULT"

(* The rule a transfer type of the token handlers is the outcome of *)
RuleOfTransferType(type) ==
  CASE type \in {"MINT_TO_BORROWER", "BURN_FROM_REPAYMENT"} -> "ZERO"
    [] type \in {"LIQUIDATION_REWARD", "STABILITY_WITHDRAWAL",
                 "STABILITY_DEPOSIT", "STABILITY_OPERATION",
                 "STAKING_OPERATION"} -> "PROTOCOL"
    [] type \in {"DEX_SWAP_IN", "DEX_SWAP_OUT"} -> "DEX"
    [] type \in {"BRIDGE_WITHDRAWAL", "BRIDGE_DEPOSIT"} -> "BRIDGE"
    [] type = "INSTITUTIONAL_OPERATION" -> "LARGE"
    [] type = "NORMAL" -> "DEFAULT"
    [] OTHER -> "OTHER"

(* The rule a classification of the ecosystem classifier is the outcome of *)
RuleOfClassification(c) ==
  CASE c.category \in {"MINT", "BURN"} -> "ZERO"
    [] c.category = "PROTOCOL_INTEGRATION" /\ c.ecosystem = "PROTOCOL_NATIVE"
         -> "PROTOCOL"
    [] c.category = "DEX_SWAP" -> "DEX"
    [] c.category = "BRIDGE_TRANSFER" -> "BRIDGE"
    [] c.category = "INSTITUTIONAL_OPERATION" -> "LARGE"
    [] c.category = "P2P_TRANSFER" -> "DEFAULT"
    [] OTHER -> "OTHER"

(* C9: for every (from, to, value) the classification is the outcome of    *)
(* the first rule that holds in the order zero address, known protocol     *)
(* contract, known DEX address, known bridge address, large value,         *)
(* default, each function with its own lists of known addresses.           *)
C9_FirstMatchingRuleWins ==
  LET zero == fromHexString(ZERO_ADDRESS)
      isZero == call.from = zero \/ call.to = zero
  IN /\ call.fn = "classify" =>
          RuleOfClassification(call.result)
            = FirstRule(isZero,
                        isProtocol(call.from) \/ isProtocol(call.to),
                        isDEX(call.from) \/ isDEX(call.to),
                        isBridge(call.from) \/ isBridge(call.to),
                        call.value)
     /\ call.fn = "getConfigurableTransferType" =>
          RuleOfTransferType(call.result)
            = FirstRule(isZero,
                        isProtocolAddress(call.from, getProtocolAddresses)
                          \/ isProtocolAddress(call.to, getProtocolAddresses),
                        isKnownDexAddress(call.from) \/ isKnownDexAddress(call.to),
                        isKnownBridgeAddress(call.from)
                          \/ isKnownBridgeAddress(call.to),
                        call.value)

(* C9, the case reached: a transfer from the token contract, a protocol    *)
(* contract of the address book, to a pool of the address book came out    *)
(* of classify as a DEX swap                                               *)
C9_ProtocolToDexClassified ==
  /\ call.fn = "classify"
  /\ call.from = fromHexString(KnownContracts.USDFC_TOKEN)
  /\ call.to = fromHexString(KnownContracts.SUSHISWAP_POOL_USDFC_WFIL)
  /\ call.result.category = "DEX_SWAP"

(* The counterparties of C10: neither the zero address nor a protocol      *)
(* contract                                                                *)
IsCounterparty(address) ==
  /\ address # fromHexString(ZERO_ADDRESS)
  /\ ~isProtocolAddress(address, getProtocolAddresses)

(* C10: for every value and every counterparty, a transfer from the        *)
(* stability pool to the counterparty classifies as STABILITY_WITHDRAWAL   *)
(* and the transfer from the counterparty to the stability pool as         *)
(* STABILITY_DEPOSIT, in both token handlers.                              *)
C10_StabilityPoolDirection ==
  call.fn \in {"getConfigurableTransferType", "classifyTransferType"} =>
    /\ (call.from = fromHexString(STABILITY_POOL_ADDRESS)
          /\ IsCounterparty(call.to))
         => call.result = "STABILITY_WITHDRAWAL"
    /\ (call.to = fromHexString(STABILITY_POOL_ADDRESS)
          /\ IsCounterparty(call.from))
         => call.result = "STABILITY_DEPOSIT"

(* C10, the case reached: classifyTransferType gave a transfer from the    *)
(* stability pool to a user a type without a direction                     *)
C10_WithdrawalWithoutDirection ==
  /\ call.fn = "classifyTransferType"
  /\ call.from = fromHexString(STABILITY_POOL_ADDRESS)
  /\ call.to = UserA
  /\ call.result = "STABILITY_OPERATION"

(* The final token handler alone classifies the stability pool by the      *)
(* direction of the transfer                                               *)
FinalStabilityPoolDirection ==
  call.fn = "getConfigurableTransferType" =>
    /\ (call.from = fromHexString(STABILITY_POOL_ADDRESS)
          /\ IsCounterparty(call.to))
         => call.result = "STABILITY_WITHDRAWAL"
    /\ (call.to = fromHexString(STABILITY_POOL_ADDRESS)
          /\ IsCounterparty(call.from))
         => call.result = "STABILITY_DEPOSIT"

-----------------------------------------------------------------------------
(* Calls of the pure functions of the helpers and handlers, one per        *)
(* behaviour, on inputs drawn from bounded sets                            *)

RatioCalls == [fn : {"none"}, collateral : 0..MaxRatioInput, debt : 0..MaxRatioInput]

callCalculateCollateralRatio ==
  /\ call.fn = "none"
  /\ "collateral" \in DOMAIN call
  /\ call' = Classified("calculateCollateralRatio",
                        calculateCollateralRatio(call.collateral, call.debt))
  /\ UNCHANGED <<stores, failed, build, delivered>>

TierThresholds ==
  {DUST_THRESHOLD, MICRO_THRESHOLD, SMALL_THRESHOLD, MEDIUM_THRESHOLD,
   LARGE_THRESHOLD, WHALE_THRESHOLD, INSTITUTIONAL_THRESHOLD}
TierAmounts ==
  {0} \cup TierThresholds \cup {t - 1 : t \in TierThresholds}
      \cup {t + 1 : t \in TierThresholds}
TierCalls == [fn : {"none"}, amount : TierAmounts]

callGetTransferAmountTier ==
  /\ call.fn = "none"
  /\ "amount" \in DOMAIN call
  /\ call' = Classified("getTransferAmountTier", getTransferAmountTier(call.amount))
  /\ UNCHANGED <<stores, failed, build, delivered>>

callGetTransferAmountTierConfigurable ==
  /\ call.fn = "none"
  /\ "amount" \in DOMAIN call
  /\ call' = Classified("getTransferAmountTierConfigurable",
                        getTransferAmountTierConfigurable(call.amount))
  /\ UNCHANGED <<stores, failed, build, delivered>>

(* Accounts by their activity: the counts of protocol, DEX, bridge, DeFi    *)
(* and peer-to-peer activity the hub has recorded, the volume received,    *)
(* and the user type stored so far                                         *)
ProfileCalls ==
  [fn : {"none"}, protocol : {0, 9, 25, 95}, dex : {0, 7}, bridge : {0, 1, 6},
   defi : {0, 11}, p2p : {0, 1}, volume : {0, INSTITUTIONAL_THRESHOLD + 1},
   userType : {"RETAIL_USER", "DEX_TRADER"}]

TotalActivity(c) == c.protocol + c.dex + c.bridge + c.defi + c.p2p

(* The account of a profile *)
ProfileAccount(c) ==
  [NewAccount EXCEPT
     !.totalTransactionCount = TotalActivity(c), !.totalVolumeIn = c.volume,
     !.netVolume = c.volume, !.protocolOperationCount = c.protocol,
     !.dexActivityCount = c.dex, !.bridgeActivityCount = c.bridge,
     !.defiIntegrationCount = c.defi, !.p2pTransferCount = c.p2p,
     !.userType = c.userType]

callUpdateUserIntelligence ==
  /\ call.fn = "none"
  /\ "protocol" \in DOMAIN call
  /\ call' = Classified("updateUserIntelligence",
       updateUserIntelligence(ProfileAccount(call), TX_CATEGORY_TRANSFER,
                              ECOSYSTEM_PROTOCOL_NATIVE, 0).userType)
  /\ UNCHANGED <<stores, failed, build, delivered>>

callClassifyUserType ==
  /\ call.fn = "none"
  /\ "protocol" \in DOMAIN call
  /\ call' = Classified("classifyUserType",
       classifyUserType(TotalActivity(call), call.protocol, call.dex,
                        call.bridge, call.defi, call.volume))
  /\ UNCHANGED <<stores, failed, build, delivered>>

(* Transfers to score: an amount of each tier, sender and receiver         *)
(* without an account (-1) or with 4 or 5 recorded transactions, and a     *)
(* block at the first or the last second of an hour of two days            *)
RiskTimestamps ==
  {d * 86400 + h * 3600 + o : d \in {0, 1}, h \in 0..23, o \in {0, 3599}}
RiskCalls ==
  [fn : {"none"}, scored : {0} \cup (TierThresholds \ {INSTITUTIONAL_THRESHOLD}),
   fromCount : {-1, 4, 5}, toCount : {-1, 4, 5}, timestamp : RiskTimestamps]

ScoredAccount(address, count) ==
  IF count < 0 THEN EmptyStore
  ELSE address :> [NewAccountFinal EXCEPT !.totalTransactionCount = count]

callGetComposableRiskScore ==
  /\ call.fn = "none"
  /\ "scored" \in DOMAIN call
  /\ call' = Classified("getComposableRiskScore",
       getComposableRiskScore(
         [World EXCEPT !.accounts = ScoredAccount(UserA, call.fromCount)
                                    @@ ScoredAccount(UserB, call.toCount)],
         UserA, UserB, call.scored, call.timestamp))
  /\ UNCHANGED <<stores, failed, build, delivered>>

InitCompute ==
  /\ accounts = EmptyStore
  /\ transactions = EmptyStore
  /\ transfers = EmptyStore
  /\ protocolStats = EmptyStore
  /\ ecosystemStats = EmptyStore
  /\ dailyStats = EmptyStore
  /\ troves = EmptyStore
  /\ troveOperations = EmptyStore
  /\ priceUpdates = EmptyStore
  /\ marketConditions = EmptyStore
  /\ protocolStakes = EmptyStore
  /\ stakeOperations = EmptyStore
  /\ stabilityDeposits = EmptyStore
  /\ stabilityOperations = EmptyStore
  /\ liquidations = EmptyStore
  /\ bridgeOperations = EmptyStore
  /\ bridgeProfiles = EmptyStore
  /\ dexProfiles = EmptyStore
  /\ dexTrades = EmptyStore
  /\ poolMetrics = EmptyStore
  /\ priceFeed = [previousPrice |-> BD(0), previousTimestamp |-> 0]
  /\ failed = "none"
  /\ build = "final"
  /\ delivered = 0
  /\ call \in RatioCalls \cup TierCalls \cup ProfileCalls \cup RiskCalls

NextCompute ==
  \/ callCalculateCollateralRatio
  \/ callGetTransferAmountTier
  \/ callGetTransferAmountTierConfigurable
  \/ callUpdateUserIntelligence
  \/ callClassifyUserType
  \/ callGetComposableRiskScore

SpecCompute == InitCompute /\ [][NextCompute]_vars

-----------------------------------------------------------------------------
(* An address that is in none of the lists of known addresses and is not   *)
(* the zero address                                                        *)
IsPlainAddress(address) ==
  /\ address # fromHexString(ZERO_ADDRESS)
  /\ ~isProtocolAddress(address, getProtocolAddresses)
  /\ ~isKnownDexAddress(address)
  /\ ~isKnownBridgeAddress(address)
  /\ ~isProtocol(address)
  /\ ~isDEX(address)
  /\ ~isBridge(address)
  /\ ~isLending(address)
  /\ ~isStoragePayment(address)

(* C11: a transfer between two addresses that are neither zero nor known   *)
(* protocol, DEX or bridge addresses classifies as institutional when its  *)
(* value is strictly greater than the threshold of 1,000,000 tokens and    *)
(* as P2P / NORMAL when it is not, in every classification function.       *)
C11_InstitutionalRule ==
  (IsPlainAddress(call.from) /\ IsPlainAddress(call.to)) =>
    LET large == call.value > INSTITUTIONAL_THRESHOLD
    IN /\ call.fn = "classify" =>
            call.result.category
              = IF large THEN "INSTITUTIONAL_OPERATION" ELSE "P2P_TRANSFER"
       /\ call.fn \in {"getConfigurableTransferType", "classifyTransferType"} =>
            call.result = IF large THEN "INSTITUTIONAL_OPERATION" ELSE "NORMAL"
       /\ call.fn = "classifyEcosystemType" =>
            call.result
              = IF large THEN "INSTITUTIONAL_ECOSYSTEM" ELSE "P2P_ECOSYSTEM"

(* C11, the case reached: a transfer above the threshold between two users *)
(* came out of the final handler's classification as NORMAL                *)
C11_LargeTransferClassifiedNormal ==
  /\ call.fn = "getConfigurableTransferType"
  /\ call.from = UserA
  /\ call.to = UserB
  /\ call.value > INSTITUTIONAL_THRESHOLD
  /\ call.result = "NORMAL"

(* The ecosystem classifier and the helper alone apply the institutional   *)
(* rule                                                                    *)
ClassifierInstitutionalRule ==
  (IsPlainAddress(call.from) /\ IsPlainAddress(call.to)) =>
    LET large == call.value > INSTITUTIONAL_THRESHOLD
    IN /\ call.fn = "classify" =>
            call.result.category
              = IF large THEN "INSTITUTIONAL_OPERATION" ELSE "P2P_TRANSFER"
       /\ call.fn = "classifyEcosystemType" =>
            call.result
              = IF large THEN "INSTITUTIONAL_ECOSYSTEM" ELSE "P2P_ECOSYSTEM"

(* C12: calculateCollateralRatio(collateral, 0) is exactly 99999 for every *)
(* collateral >= 0, and for every debt > 0 the result is the quotient      *)
(* collateral / debt times 100, a number with a non-zero denominator.      *)
C12_RatioSentinel ==
  call.fn = "calculateCollateralRatio" =>
    /\ call.debt = 0 => call.result = [num |-> 99999, den |-> 1]
    /\ call.debt > 0 =>
          /\ call.result.den > 0
          /\ call.result.num * call.debt = 100 * call.collateral * call.result.den

(* C12, the case reached: the ratio of a positive collateral without debt  *)
(* was computed and is the sentinel                                        *)
C12_SentinelReturned ==
  /\ call.fn = "calculateCollateralRatio"
  /\ call.collateral > 0
  /\ call.debt = 0
  /\ call.result = [num |-> 99999, den |-> 1]

-----------------------------------------------------------------------------
(* Derived metrics                                                         *)

(* C13: no division by zero is reachable in the derived metrics: every     *)
(* TroveUpdated event with non-negative collateral and debt and every      *)
(* price update with a non-negative price is handled to its end, no        *)
(* handler is aborted, and every derived field of the stored troves and of *)
(* the protocol statistics has a value.                                    *)
C13_DerivedMetricsDefined ==
  /\ failed = "none"
  /\ \A b \in DOMAIN troves : ~Undefined(troves[b], TroveDecimals)
  /\ \A g \in DOMAIN protocolStats : ~Undefined(protocolStats[g], PriceDecimals)

(* C13, the case reached: a price of 0 arrived while total collateral and  *)
(* total debt were positive, and the price handler was aborted             *)
C13_PriceZeroAborted ==
  /\ failed = "handlePriceUpdate"
  /\ Exists(protocolStats, GLOBAL_STATS_ID)
  /\ protocolStats[GLOBAL_STATS_ID].totalCollateral > 0
  /\ protocolStats[GLOBAL_STATS_ID].totalDebt > 0

(* A TroveUpdated event with collateral 0 and a positive debt aborts the   *)
(* trove handler: nothing of the event is stored                           *)
TroveWithoutCollateralAborted ==
  /\ failed = "handleTroveUpdated"
  /\ troves = EmptyStore
  /\ transactions = EmptyStore

(* The health score the bands give a trove with this collateral and debt   *)
HealthBand(coll, debt) ==
  IF debt = 0 THEN 100
  ELSE IF coll * 100 < 110 * debt THEN 0
  ELSE IF coll * 100 < 125 * debt THEN 25
  ELSE IF coll * 100 < 150 * debt THEN 50
  ELSE IF coll * 100 < 200 * debt THEN 75
  ELSE 100

OpenedAt2000Over1000(trove) ==
  /\ trove.operationCount = 1
  /\ trove.collateral = 2000
  /\ trove.debt = 1000

-----------------------------------------------------------------------------
(* Amount tiers                                                            *)

(* The tiers from the lowest up, each with its upper threshold; the        *)
(* highest tier has none                                                   *)
TierLadder ==
  <<<<"DUST", DUST_THRESHOLD>>, <<"MICRO", MICRO_THRESHOLD>>,
    <<"SMALL", SMALL_THRESHOLD>>, <<"MEDIUM", MEDIUM_THRESHOLD>>,
    <<"LARGE", LARGE_THRESHOLD>>, <<"WHALE", WHALE_THRESHOLD>>>>

(* The lowest tier whose upper threshold is strictly greater than the      *)
(* amount                                                                  *)
LowestTierAbove(amount) ==
  IF \E i \in 1..Len(TierLadder) : amount < TierLadder[i][2]
  THEN LET i == CHOOSE j \in 1..Len(TierLadder) :
                  /\ amount < TierLadder[j][2]
                  /\ \A k \in 1..(j - 1) : ~(amount < TierLadder[k][2])
       IN TierLadder[i][1]
  ELSE "INSTITUTIONAL"

(* C16: for every amount each tier function of the source returns the      *)
(* lowest tier whose upper threshold is strictly greater than the amount,  *)
(* so that an amount equal to a threshold is in the next tier up: 100      *)
(* tokens are MEDIUM and 99.999 tokens are SMALL in every tier function.   *)
C16_TierBoundaries ==
  call.fn \in {"getTransferAmountTier", "getTransferAmountTierConfigurable"} =>
    /\ call.result = LowestTierAbove(call.amount)
    /\ call.amount = 100 * DECIMAL_PRECISION => call.result = "MEDIUM"
    /\ call.amount = 100 * DECIMAL_PRECISION - 1 => call.result = "SMALL"

(* C16, the case reached: the tier function of the configurable risk       *)
(* module put 100 tokens in the tier SMALL                                 *)
C16_HundredTokensSmall ==
  /\ call.fn = "getTransferAmountTierConfigurable"
  /\ call.amount = 100 * DECIMAL_PRECISION
  /\ call.result = "SMALL"

(* The tier function of the token handler alone has the boundaries of the  *)
(* ladder                                                                  *)
HandlerTierBoundaries ==
  call.fn = "getTransferAmountTier" =>
    /\ call.result = LowestTierAbove(call.amount)
    /\ call.amount = 100 * DECIMAL_PRECISION => call.result = "MEDIUM"
    /\ call.amount = 100 * DECIMAL_PRECISION - 1 => call.result = "SMALL"

-----------------------------------------------------------------------------
(* Trove performance score                                                 *)

RMax(a, b) == IF RLt(a, b) THEN b ELSE a
RMin(a, b) == IF RLt(a, b) THEN a ELSE b

(* The stability component: 100 above a lowest ratio of 150, the lowest    *)
(* ratio over 1.5 up to there                                              *)
StabilityOf(trove) ==
  IF RGt(trove.lowestCollateralRatio, BD(150)) THEN BD(100)
  ELSE RMin(BD(100), RMax(ZERO_BD, RDiv(trove.lowestCollateralRatio, Rat(3, 2))))

(* The weighted score of the four components with the weights 0.4, 0.3,    *)
(* 0.2 and 0.1, over the sum of the weights                                *)
WeightedPerformance(health, stability, riskEvents, daysOpen) ==
  LET riskPenalty == RMax(ZERO_BD, BD(100 - 10 * riskEvents))
      ageBonus == RMin(BD(100), Rat(daysOpen * 100, 30))
      sum == RPlus(RPlus(RTimes(Rat(4, 10), health), RTimes(Rat(3, 10), stability)),
                   RPlus(RTimes(Rat(2, 10), riskPenalty), RTimes(Rat(1, 10), ageBonus)))
  IN RDiv(sum, RPlus(RPlus(Rat(4, 10), Rat(3, 10)), RPlus(Rat(2, 10), Rat(1, 10))))

(* C17: after every TroveUpdated event the performance score of the trove  *)
(* is (0.4 * healthScore + 0.3 * stability + 0.2 * max(0, 100 - 10 *       *)
(* riskEvents) + 0.1 * min(100, daysOpen / 30 * 100)) over the sum of the  *)
(* weights; a trove open 30 days with health score 100, no risk events     *)
(* and lowest ratio above 150 has the score 100.                           *)
C17_PerformanceScoreFormula ==
  \A b \in DOMAIN troves :
    troves[b].status # "CLOSED_BY_LIQUIDATION" =>
      troves[b].performanceScore
        = WeightedPerformance(troves[b].healthScore, StabilityOf(troves[b]),
                              troves[b].riskEvents, troves[b].daysOpen)

(* C17, the case reached: a trove open 30 days with health score 100, no   *)
(* risk events and lowest ratio above 150 has the score 90.1               *)
C17_ThirtyDaysScoredBelow100 ==
  /\ Exists(troves, UserA)
  /\ troves[UserA].status = "ACTIVE"
  /\ troves[UserA].daysOpen = 30
  /\ troves[UserA].riskEvents = 0
  /\ troves[UserA].healthScore = BD(100)
  /\ RGt(troves[UserA].lowestCollateralRatio, BD(150))
  /\ troves[UserA].performanceScore = [num |-> 901, den |-> 10]

(* Up to the age bonus the code computes the formula: a trove updated on   *)
(* the day it was opened has the score of the formula                      *)
PerformanceScoreOnOpeningDay ==
  \A b \in DOMAIN troves :
    (troves[b].status # "CLOSED_BY_LIQUIDATION" /\ troves[b].daysOpen = 0) =>
      troves[b].performanceScore
        = WeightedPerformance(troves[b].healthScore, StabilityOf(troves[b]),
                              troves[b].riskEvents, 0)

-----------------------------------------------------------------------------
(* Validation of the input                                                 *)

(* C18: from every reachable state and for every Transfer event with a     *)
(* negative value, handling the event leaves every stored record (Account, *)
(* Transaction, Transfer, ProtocolStats, EcosystemStats,                   *)
(* DailyEcosystemStats) as it was before the event.                        *)
C18_NegativeValueRejected ==
  \A e \in Events, p \in TransferParties :
    DeployedTransfer(World, e, p[1], p[2], -1) = World

(* C18, the case reached: a Transfer with a negative value, which          *)
(* validateTransfer does not accept, is stored with its Transaction and    *)
(* has moved the receiver's balance below zero                             *)
C18_NegativeTransferStored ==
  \E k \in DOMAIN transfers \cap DOMAIN transactions :
    /\ transfers[k].value < 0
    /\ transactions[k].value < 0
    /\ ~validateTransfer(transfers[k].from, transfers[k].to, transfers[k].value)
    /\ transfers[k].to = UserB
    /\ Exists(accounts, UserB)
    /\ accounts[UserB].usdfcBalance < 0


-----------------------------------------------------------------------------
(* Gains claimed by an address without a position *)

(* w is the store after a gains handler ran on the event e of the address  *)
(* id: the position stores are as before, no decimal of a position is      *)
(* undefined, and the ledger holds the Transaction of the event's key      *)
PositionsKept(w, e, id) ==
  /\ w.protocolStakes = protocolStakes
  /\ w.stabilityDeposits = stabilityDeposits
  /\ w.stakeOperations = stakeOperations
  /\ w.stabilityOperations = stabilityOperations
  /\ Exists(w.transactions, concatI32(e[1], e[2]))
  /\ w.transactions[concatI32(e[1], e[2])].from = id

StakingGainsKeepPositions(e, staker, g) ==
  PositionsKept(StakingGainsWithdrawn(World, e[1], e[2], blockTimestamp(e[1]), staker, g[1], g[2]), e, staker)

CollateralGainsKeepPositions(e, depositor, g) ==
  PositionsKept(FILGainWithdrawn(World, e[1], e[2], blockTimestamp(e[1]), depositor, g[1], g[2]), e, depositor)

(* C19: a StakingGainsWithdrawn event for an address that has no           *)
(* ProtocolStake record, and a FILGainWithdrawn event for an address that  *)
(* has no StabilityDeposit record, is handled without a failure, creates   *)
(* no position record and no operation record, and writes the Transaction  *)
(* keyed by the event's hash and log index.                                *)
C19_GainsWithoutPositionIsNoOp ==
  \A u \in {UserA, UserB}, g \in GainAmounts :
    /\ ~Exists(protocolStakes, u) => StakingGainsKeepPositions(PositionEventAt(delivered), u, g)
    /\ ~Exists(stabilityDeposits, u) => CollateralGainsKeepPositions(PositionEventAt(delivered), u, g)

(* The handlers have stored both gains claims of UserA, who has no position *)
C19_GainsClaimedWithoutPosition ==
  /\ failed = "none"
  /\ ~Exists(protocolStakes, UserA)
  /\ ~Exists(stabilityDeposits, UserA)
  /\ \E t \in DOMAIN transactions :
       transactions[t].from = UserA /\ transactions[t].category = TX_CATEGORY_STAKING_OPERATION
  /\ \E t \in DOMAIN transactions :
       transactions[t].from = UserA /\ transactions[t].category = TX_CATEGORY_STABILITY_OPERATION

(* No handler of the staking and stability pool events is ever aborted *)
PositionHandlersComplete == failed = "none"


-----------------------------------------------------------------------------
(* The closed states of a trove *)

StoredStatus(store, borrower) ==
  IF Exists(store, borrower) THEN store[borrower].status ELSE "NONE"

ClosedStatusKept(borrower) ==
  /\ StoredStatus(troves, borrower) = "CLOSED_BY_LIQUIDATION"
       => StoredStatus(troves', borrower) # "CLOSED_BY_OWNER"
  /\ StoredStatus(troves, borrower) = "CLOSED_BY_OWNER"
       => StoredStatus(troves', borrower) # "CLOSED_BY_LIQUIDATION"

(* C20: no TroveUpdated or TroveLiquidated event takes a trove from        *)
(* CLOSED_BY_LIQUIDATION to CLOSED_BY_OWNER or from CLOSED_BY_OWNER to     *)
(* CLOSED_BY_LIQUIDATION; in particular a TroveUpdated event with debt 0   *)
(* leaves a liquidated trove CLOSED_BY_LIQUIDATION.                        *)
C20_ClosedStatusOneDirectional == [][ClosedStatusKept(UserA)]_vars

(* The trove of UserA was opened, then liquidated, and the TroveUpdated    *)
(* event with debt 0 that followed has stored it as closed by its owner    *)
C20_LiquidatedTroveClosedByOwner ==
  /\ failed = "none"
  /\ delivered = 3
  /\ Exists(troves, UserA)
  /\ troves[UserA].status = "CLOSED_BY_OWNER"
  /\ troves[UserA].riskEvents > 0
  /\ transactions[EventAt(0)].category = TX_CATEGORY_TROVE_OPERATION
  /\ transactions[EventAt(1)].category = TX_CATEGORY_LIQUIDATION
  /\ transactions[EventAt(2)].category = TX_CATEGORY_TROVE_OPERATION
  /\ transactions[EventAt(2)].value = 0

(* The status a TroveUpdated event stores depends on the debt alone *)
UpdatedStatusFollowsDebt ==
  [][\A t \in BandInputs :
       handleTroveUpdated(UserA, t[1], t[2], t[1]) /\ failed' = "none"
         => StoredStatus(troves', UserA) = IF t[2] = 0 THEN "CLOSED_BY_OWNER" ELSE "ACTIVE"]_vars


-----------------------------------------------------------------------------
(* Mints *)

MintCountOf(w) ==
  IF Exists(w.protocolStats, GLOBAL_STATS_ID)
  THEN w.protocolStats[GLOBAL_STATS_ID].lifetimeMintCount ELSE 0

(* w1 is the store w after a mint of value to the receiver *)
MintCredited(w, w1, receiver, value) ==
  /\ BalanceOf(w1, receiver) = BalanceOf(w, receiver) + value
  /\ \A a \in Addresses \ {receiver} : BalanceOf(w1, a) = BalanceOf(w, a)

MintCounted(w, w1) == MintCountOf(w1) = MintCountOf(w) + 1

(* C21: a Transfer event from the zero address to A with value v raises    *)
(* the usdfcBalance of A by exactly v, changes no other balance, and       *)
(* raises ProtocolStats.lifetimeMintCount by exactly 1.                    *)
C21_MintAccounting ==
  \A e \in Events, value \in Values :
    /\ MintCredited(World, DeployedTransfer(World, e, fromHexString(ZERO_ADDRESS), UserA, value), UserA, value)
    /\ MintCounted(World, DeployedTransfer(World, e, fromHexString(ZERO_ADDRESS), UserA, value))

(* The balance part of C21 alone *)
MintCreditsReceiver ==
  \A e \in Events, value \in Values :
    MintCredited(World, DeployedTransfer(World, e, fromHexString(ZERO_ADDRESS), UserA, value), UserA, value)

(* A mint to UserA is stored, UserA holds its value, and no mint is counted *)
C21_MintStoredUncounted ==
  /\ delivered = 1
  /\ \E k \in DOMAIN transfers :
       /\ transfers[k].from = fromHexString(ZERO_ADDRESS)
       /\ transfers[k].to = UserA
       /\ BalanceOf(World, UserA) = transfers[k].value
  /\ MintCountOf(World) = 0


-----------------------------------------------------------------------------
(* The writes of one TroveUpdated event *)

(* The records handleTroveUpdated writes for the event with key k of the   *)
(* borrower: Transaction, Account, Trove, TroveOperation, the global       *)
(* statistics and the statistics of the event's day                        *)
TroveEventWrites(k, borrower) ==
  {Exists(transactions, k), Exists(accounts, borrower),
   Exists(troves, borrower), Exists(troveOperations, k),
   Exists(protocolStats, GLOBAL_STATS_ID),
   Exists(dailyStats, getDayId(blockTimestamp(k[1])))}

IsTroveUpdate(k) ==
  Exists(transactions, k) /\ transactions[k].category = TX_CATEGORY_TROVE_OPERATION

(* C22: a TroveUpdated event whose Transaction is stored has all of its    *)
(* records stored, the trove, the operation, the account, the global and   *)
(* the daily statistics; a handler that failed, or that found no           *)
(* ProtocolStats record, has left none of them.                            *)
C22_EventWritesAllOrNone ==
  \A i \in 0..(MaxProtocolEvents - 1) :
    IsTroveUpdate(EventAt(i))
      => TroveEventWrites(EventAt(i), transactions[EventAt(i)].from) = {TRUE}

(* The first event was a TroveUpdated: its trove, operation, account,      *)
(* Transaction and daily statistics are stored, the global statistics not  *)
C22_TroveStoredWithoutProtocolStats ==
  /\ failed = "none"
  /\ delivered = 1
  /\ IsTroveUpdate(EventAt(0))
  /\ Exists(troves, UserA)
  /\ Exists(troveOperations, EventAt(0))
  /\ Exists(accounts, UserA)
  /\ ~Exists(protocolStats, GLOBAL_STATS_ID)

(* Apart from the global statistics the writes of a TroveUpdated event are *)
(* all stored or, when the handler failed, none                            *)
TroveEventWritesButStats ==
  \A i \in 0..(MaxProtocolEvents - 1) :
    /\ IsTroveUpdate(EventAt(i))
         => TroveEventWrites(EventAt(i), transactions[EventAt(i)].from) \ {Exists(protocolStats, GLOBAL_STATS_ID)} \subseteq {TRUE}
    /\ Exists(troveOperations, EventAt(i)) => IsTroveUpdate(EventAt(i))
    /\ (failed = "handleTroveUpdated" /\ delivered = i + 1)
         => ~Exists(transactions, EventAt(i)) /\ ~Exists(troveOperations, EventAt(i))


-----------------------------------------------------------------------------
(* The user type of an account *)

(* The user type by the priority DEX_TRADER, BRIDGE_USER, DEFI_USER,       *)
(* PROTOCOL_NATIVE, POWER_USER, first match, else the previous type        *)
UserTypeByPriority(c, previous) ==
  IF TotalActivity(c) > 0 /\ 10 * c.dex > 6 * TotalActivity(c) THEN "DEX_TRADER"
  ELSE IF c.bridge > 5 THEN "BRIDGE_USER"
  ELSE IF c.defi > 10 THEN "DEFI_USER"
  ELSE IF TotalActivity(c) > 0 /\ 10 * c.protocol > 8 * TotalActivity(c) THEN "PROTOCOL_NATIVE"
  ELSE IF TotalActivity(c) > 100 THEN "POWER_USER"
  ELSE previous

(* C23: the user type an account update stores, and the one                *)
(* classifyUserType returns, is the first match of the priority            *)
(* DEX_TRADER (DEX share of the activity above 0.6), BRIDGE_USER (bridge   *)
(* activity above 5), DEFI_USER (DeFi activity above 10), PROTOCOL_NATIVE  *)
(* (protocol share above 0.8), POWER_USER (activity above 100); without a  *)
(* match the type stays what it was, RETAIL_USER by default.               *)
C23_UserTypePriority ==
  /\ call.fn = "updateUserIntelligence"
       => call.result = UserTypeByPriority(call, call.userType)
  /\ call.fn = "classifyUserType"
       => call.result = UserTypeByPriority(call, "RETAIL_USER")

(* An account with bridge activity 6 and a protocol share above 0.8 was    *)
(* updated and is PROTOCOL_NATIVE                                          *)
C23_BridgeUserStoredProtocolNative ==
  /\ call.fn = "updateUserIntelligence"
  /\ call.bridge = 6
  /\ call.protocol = 25
  /\ TotalActivity(call) = 31
  /\ call.result = "PROTOCOL_NATIVE"

(* Without bridge and DeFi activity an account update stores the type of   *)
(* the priority                                                            *)
UserTypeWithoutBridgeOrDefi ==
  (call.fn = "updateUserIntelligence" /\ call.bridge = 0 /\ call.defi = 0)
    => call.result = UserTypeByPriority(call, call.userType)

-----------------------------------------------------------------------------
(* The risk score of a transfer *)

(* The risk weights of the tiers: 0, 2, 5, 15, 25, 40, 60 *)
TierWeight(tier) ==
  CASE tier = "DUST" -> 0 [] tier = "MICRO" -> 2 [] tier = "SMALL" -> 5
    [] tier = "MEDIUM" -> 15 [] tier = "LARGE" -> 25 [] tier = "WHALE" -> 40
    [] OTHER -> 60

AdditiveRisk(amount, fromCount, toCount) ==
  TierWeight(LowestTierAbove(amount))
  + (IF fromCount < 5 THEN 10 ELSE 0) + (IF toCount < 5 THEN 10 ELSE 0)

UtcHour(timestamp) == (timestamp % 86400) \div 3600

-----------------------------------------------------------------------------
(* The yield rate of a position *)

(* gain / averageBalance * 365 * 100 *)
YieldObservation(gain, average) ==
  RTimes(RTimes(RDiv(BD(gain), average), BD(365)), BD(100))

Smoothed(previous, observation) ==
  RPlus(RTimes(previous, Rat(8, 10)), RTimes(observation, Rat(2, 10)))

(* The gains handlers write operations whose Transaction carries the gain *)
StakeGainsClaimed ==
  \E k \in DOMAIN stakeOperations :
    /\ stakeOperations[k].operation = "CLAIM_GAINS"
    /\ transactions[k].value = stakeOperations[k].filClaimed

DepositGainsClaimed ==
  \E k \in DOMAIN stabilityOperations :
    /\ stabilityOperations[k].operation = "CLAIM_GAINS"
    /\ transactions[k].value = stabilityOperations[k].collateralGainClaimed

YieldRateAfter(claimedBefore, previous, observation) ==
  IF claimedBefore THEN Smoothed(previous, observation) ELSE observation

StakeYieldStep(g) ==
  (handleStakingGainsWithdrawn(UserA, g[1], g[2]) /\ Exists(protocolStakes, UserA))
    => protocolStakes'[UserA].stakingYieldRate
         = YieldRateAfter(StakeGainsClaimed, protocolStakes[UserA].stakingYieldRate,
             YieldObservation(g[1] + g[2], protocolStakes[UserA].averageStake))

DepositYieldStep(g) ==
  (handleFILGainWithdrawn(UserA, g[1], g[2]) /\ Exists(stabilityDeposits, UserA))
    => stabilityDeposits'[UserA].yieldRate
         = YieldRateAfter(DepositGainsClaimed, stabilityDeposits[UserA].yieldRate,
             YieldObservation(g[1], stabilityDeposits[UserA].averageDeposit))

(* C25: the first gains claim of a staker or depositor sets the yield rate *)
(* to the observation gain / average balance * 365 * 100; every later      *)
(* claim sets it to 0.8 times the previous rate plus 0.2 times the         *)
(* observation, also when the previous rate is 0 after a claim without     *)
(* gain.                                                                   *)
C25_YieldRateSmoothing ==
  [][\A g \in GainAmounts : StakeYieldStep(g) /\ DepositYieldStep(g)]_vars

(* The staker, active for 30 days, claimed without a gain and then with a  *)
(* gain of 5: the yield rate is the whole second observation               *)
C25_SecondClaimUnsmoothed ==
  /\ failed = "none"
  /\ delivered = 4
  /\ Exists(protocolStakes, UserA)
  /\ protocolStakes[UserA].daysActive = 30
  /\ Exists(stakeOperations, PositionEventAt(2))
  /\ transactions[PositionEventAt(2)].value = 0
  /\ stakeOperations[PositionEventAt(2)].operation = "CLAIM_GAINS"
  /\ Exists(stakeOperations, PositionEventAt(3))
  /\ stakeOperations[PositionEventAt(3)].filClaimed = 3
  /\ stakeOperations[PositionEventAt(3)].usdfcClaimed = 2
  /\ protocolStakes[UserA].stakingYieldRate
       = YieldObservation(5, protocolStakes[UserA].averageStake)

(* A claim of a position that is active for a day or more and has a yield  *)
(* rate other than 0 smooths, and one that finds the rate 0 stores the     *)
(* observation                                                             *)
StakeYieldByStoredRate(g) ==
  (/\ handleStakingGainsWithdrawn(UserA, g[1], g[2])
   /\ Exists(protocolStakes, UserA)
   /\ protocolStakes[UserA].daysActive > 0)
    => protocolStakes'[UserA].stakingYieldRate
         = YieldRateAfter(protocolStakes[UserA].stakingYieldRate # ZERO_BD,
             protocolStakes[UserA].stakingYieldRate,
             YieldObservation(g[1] + g[2], protocolStakes[UserA].averageStake))

DepositYieldByStoredRate(g) ==
  (/\ handleFILGainWithdrawn(UserA, g[1], g[2])
   /\ Exists(stabilityDeposits, UserA)
   /\ stabilityDeposits[UserA].daysActive > 0)
    => stabilityDeposits'[UserA].yieldRate
         = YieldRateAfter(stabilityDeposits[UserA].yieldRate # ZERO_BD,
             stabilityDeposits[UserA].yieldRate,
             YieldObservation(g[1], stabilityDeposits[UserA].averageDeposit))

YieldRateByStoredRate ==
  [][\A g \in GainAmounts : StakeYieldByStoredRate(g) /\ DepositYieldByStoredRate(g)]_vars


-----------------------------------------------------------------------------
(* The operation records of the position events *)

(* The handler of the event with key k appended the operation k *)
OperationAppended(before, after, k) == k \notin DOMAIN before /\ k \in DOMAIN after

UnchangedValueLogged(operation) ==
  operation.operation = "CLAIM_GAINS" /\ operation.amount = 0

StakeChangeLogged(a) ==
  handleStakeChanged(UserA, a) =>
    /\ OperationAppended(stakeOperations, stakeOperations', PositionEventAt(delivered))
    /\ (Exists(protocolStakes, UserA) /\ protocolStakes[UserA].stake = a)
         => UnchangedValueLogged(stakeOperations'[PositionEventAt(delivered)])

DepositChangeLogged(a) ==
  handleUserDepositChanged(UserA, a) =>
    /\ OperationAppended(stabilityOperations, stabilityOperations', PositionEventAt(delivered))
    /\ (Exists(stabilityDeposits, UserA) /\ stabilityDeposits[UserA].currentDeposit = a)
         => UnchangedValueLogged(stabilityOperations'[PositionEventAt(delivered)])

StakeGainsLogged(g) ==
  handleStakingGainsWithdrawn(UserA, g[1], g[2]) =>
    OperationAppended(stakeOperations, stakeOperations', PositionEventAt(delivered))

DepositGainsLogged(g) ==
  handleFILGainWithdrawn(UserA, g[1], g[2]) =>
    OperationAppended(stabilityOperations, stabilityOperations', PositionEventAt(delivered))

(* C26: every StakeChanged, UserDepositChanged and gains claim event       *)
(* appends the operation record keyed by its transaction hash and log      *)
(* index, also when the new stake or deposit is the stored one: the record *)
(* then has the type CLAIM_GAINS and the amount 0.                         *)
C26_OperationPerEvent ==
  [][/\ \A a \in PositionAmounts : StakeChangeLogged(a) /\ DepositChangeLogged(a)
     /\ \A g \in GainAmounts : StakeGainsLogged(g) /\ DepositGainsLogged(g)]_vars

(* The first event was a gains claim of UserA, who has no stake: its       *)
(* Transaction is stored and no operation record                           *)
C26_GainsClaimWithoutOperation ==
  /\ failed = "none"
  /\ delivered = 1
  /\ Exists(transactions, PositionEventAt(0))
  /\ transactions[PositionEventAt(0)].category = TX_CATEGORY_STAKING_OPERATION
  /\ ~Exists(stakeOperations, PositionEventAt(0))
  /\ ~Exists(protocolStakes, UserA)

(* The events that change a position, and the gains claims of a stored     *)
(* position, append their operation record                                 *)
OperationPerPositionEvent ==
  [][/\ \A a \in PositionAmounts : StakeChangeLogged(a) /\ DepositChangeLogged(a)
     /\ \A g \in GainAmounts :
          /\ Exists(protocolStakes, UserA) => StakeGainsLogged(g)
          /\ Exists(stabilityDeposits, UserA) => DepositGainsLogged(g)]_vars

(* Every stored TroveUpdated event has its operation record *)
OperationPerTroveUpdate ==
  \A k \in DOMAIN transactions :
    transactions[k].category = TX_CATEGORY_TROVE_OPERATION => Exists(troveOperations, k)


-----------------------------------------------------------------------------
(* Risk level against health score *)

(* The risk levels that mirror the band of a health score *)
RiskLevelsOfHealth(healthScore) ==
  IF healthScore = BD(100) THEN {"VERY_LOW"}
  ELSE IF healthScore = BD(75) THEN {"LOW"}
  ELSE IF healthScore = BD(50) THEN {"MEDIUM"}
  ELSE IF healthScore = BD(25) THEN {"HIGH"}
  ELSE IF healthScore = ZERO_BD THEN {"VERY_HIGH", "CRITICAL"}
  ELSE {}

RiskMirrorsHealth(trove) == trove.riskLevel \in RiskLevelsOfHealth(trove.healthScore)

(* The collateral ratios at which the health score steps *)
HealthBreakpoints == {BD(110), BD(125), BD(150), BD(200)}

(* C27: the risk level of every stored trove mirrors its health score band *)
(* for band: 100 with VERY_LOW, 75 with LOW, 50 with MEDIUM, 25 with HIGH, *)
(* 0 with VERY_HIGH or CRITICAL, the collateral ratios 110, 125, 150 and   *)
(* 200 included.                                                           *)
C27_RiskMirrorsHealthBands ==
  \A b \in DOMAIN troves : RiskMirrorsHealth(troves[b])

(* A TroveUpdated event with collateral 1500 and debt 1000 stored the      *)
(* trove with ratio 150, health score 75 and risk level MEDIUM             *)
C27_TroveAtBreakpoint ==
  /\ Exists(troves, UserA)
  /\ troves[UserA].collateral = 1500
  /\ troves[UserA].debt = 1000
  /\ troves[UserA].collateralRatio = BD(150)
  /\ troves[UserA].healthScore = BD(75)
  /\ troves[UserA].riskLevel = "MEDIUM"

(* Off the four breakpoints the risk level mirrors the health score; on a  *)
(* breakpoint the health score is of the band above the risk level's       *)
RiskMirrorsHealthOffBreakpoints ==
  \A b \in DOMAIN troves :
    IF troves[b].collateralRatio \in HealthBreakpoints
    THEN ~RiskMirrorsHealth(troves[b])
    ELSE RiskMirrorsHealth(troves[b])


-----------------------------------------------------------------------------
(* The protocol totals against the trove records *)

RECURSIVE SumOfField(_, _, _)
SumOfField(store, ids, field) ==
  IF ids = {} THEN 0
  ELSE LET id == CHOOSE x \in ids : TRUE
       IN store[id][field] + SumOfField(store, ids \ {id}, field)

(* ProtocolStats was stored before the first trove: every new trove has    *)
(* been counted                                                            *)
StatsSinceFirstTrove ==
  /\ Exists(protocolStats, GLOBAL_STATS_ID)
  /\ protocolStats[GLOBAL_STATS_ID].totalTroveCount = Cardinality(DOMAIN troves)

TotalsAreTroveSums ==
  /\ protocolStats[GLOBAL_STATS_ID].totalDebt = SumOfField(troves, DOMAIN troves, "debt")
  /\ protocolStats[GLOBAL_STATS_ID].totalCollateral =
       SumOfField(troves, DOMAIN troves, "collateral")

(* C28: when ProtocolStats exists from before the first trove event, its   *)
(* totalDebt is the sum of the debt of all Trove records and its           *)
(* totalCollateral the sum of their collateral, after any sequence of      *)
(* TroveUpdated, TroveLiquidated and Liquidation events.                   *)
C28_TotalsEqualTroveSums == StatsSinceFirstTrove => TotalsAreTroveSums

(* A Liquidation event of debt 500 and collateral 1000 was handled while   *)
(* the trove of UserA holds that debt and collateral: the totals are 0     *)
C28_LiquidationLeftTroveBehind ==
  /\ StatsSinceFirstTrove
  /\ failed = "none"
  /\ liquidations # EmptyStore
  /\ DOMAIN troves = {UserA}
  /\ troves[UserA].debt = 500
  /\ troves[UserA].collateral = 1000
  /\ protocolStats[GLOBAL_STATS_ID].totalDebt = 0
  /\ protocolStats[GLOBAL_STATS_ID].totalCollateral = 0
  /\ protocolStats[GLOBAL_STATS_ID].lifetimeLiquidationCount = 1

(* Without a Liquidation event the totals are the sums over the troves,    *)
(* which keep debt and collateral when TroveLiquidated closes them         *)
TotalsEqualTroveSumsWithoutLiquidation ==
  StatsSinceFirstTrove /\ liquidations = EmptyStore => TotalsAreTroveSums


-----------------------------------------------------------------------------
(* The active count against the trove records *)

ActiveTroves == {b \in DOMAIN troves : troves[b].status = "ACTIVE"}

(* C29: when ProtocolStats exists from before the first trove event,       *)
(* activeTroveCount is the number of Trove records with status ACTIVE and  *)
(* so never negative, also when the first event of a borrower has debt 0.  *)
C29_ActiveCountIsActiveTroves ==
  StatsSinceFirstTrove =>
    /\ protocolStats[GLOBAL_STATS_ID].activeTroveCount = Cardinality(ActiveTroves)
    /\ protocolStats[GLOBAL_STATS_ID].activeTroveCount >= 0

(* UserA opened a trove with debt and the first event of UserB had debt 0: *)
(* one trove is ACTIVE and the active count is -1                          *)
C29_NegativeCountWithActiveTrove ==
  /\ StatsSinceFirstTrove
  /\ failed = "none"
  /\ DOMAIN troves = {UserA, UserB}
  /\ troves[UserA].status = "ACTIVE"
  /\ troves[UserA].operationCount = 1
  /\ troves[UserB].status = "CLOSED_BY_OWNER"
  /\ troves[UserB].operationCount = 1
  /\ protocolStats[GLOBAL_STATS_ID].activeTroveCount = -1

(* The first event of every trove leaves the count one short: a new trove  *)
(* is taken to have been ACTIVE before. Later changes of status are        *)
(* counted.                                                                *)
ActiveCountOneShortPerTrove ==
  StatsSinceFirstTrove =>
    protocolStats[GLOBAL_STATS_ID].activeTroveCount =
      Cardinality(ActiveTroves) - Cardinality(DOMAIN troves)


-----------------------------------------------------------------------------
(* The counters of the parties of a swap *)

(* A counter of an account; an address without a record has counted nothing *)
CounterOf(store, address, field) ==
  IF Exists(store, address) THEN store[address][field] ELSE 0

CounterRose(address, field, by) ==
  CounterOf(accounts', address, field) = CounterOf(accounts, address, field) + by

SwapCounted(sender, recipient) ==
  handleSwap(sender, recipient) =>
    IF sender = recipient
    THEN /\ CounterRose(sender, "tokenTransferCount", 1)
         /\ CounterRose(sender, "dexActivityCount", 2)
    ELSE /\ CounterRose(sender, "tokenTransferCount", 1)
         /\ CounterRose(sender, "dexActivityCount", 1)
         /\ CounterRose(recipient, "dexActivityCount", 1)

(* C30: one Swap event raises the tokenTransferCount and the               *)
(* dexActivityCount of the sender by 1 and the dexActivityCount of the     *)
(* recipient by 1; when the sender is the recipient the one account's      *)
(* dexActivityCount rises by 2 and its tokenTransferCount by 1.            *)
C30_SwapLosesNoUpdate ==
  [][\A p \in SwapParties : SwapCounted(p[1], p[2])]_vars

(* The first event was a swap of UserA with itself: the account is stored  *)
(* with dexActivityCount 1 and tokenTransferCount 0                        *)
C30_SelfSwapCountedOnce ==
  /\ delivered = 1
  /\ DOMAIN accounts = {UserA}
  /\ transactions = EmptyStore
  /\ transfers = EmptyStore
  /\ accounts[UserA].dexActivityCount = 1
  /\ accounts[UserA].tokenTransferCount = 0

(* A swap between two addresses counts for both; a swap of an address with *)
(* itself keeps the recipient's update alone                               *)
SwapCountedPerSavedRecord ==
  [][\A p \in SwapParties :
       IF p[1] # p[2] THEN SwapCounted(p[1], p[2])
       ELSE handleSwap(p[1], p[2]) =>
              /\ CounterRose(p[1], "tokenTransferCount", 0)
              /\ CounterRose(p[1], "dexActivityCount", 1)]_vars


-----------------------------------------------------------------------------
(* The composability score against the activity counters *)

EcosystemCounters ==
  {"protocolOperationCount", "dexActivityCount", "bridgeActivityCount",
   "p2pTransferCount", "defiIntegrationCount"}

ActiveEcosystems(account) == Cardinality({f \in EcosystemCounters : account[f] > 0})

ComposabilityTracksCounters(account) ==
  /\ account.composabilityScore = BD(20 * ActiveEcosystems(account))
  /\ ~RGt(account.composabilityScore, BD(100))

(* C31: the composabilityScore of every Account is 20 times the number of  *)
(* its five ecosystem activity counters that are greater than zero, and at *)
(* most 100.                                                               *)
C31_ComposabilityIsTwentyPerEcosystem ==
  \A a \in DOMAIN accounts : ComposabilityTracksCounters(accounts[a])

(* The first event was a swap from UserA to UserB: the recipient has DEX   *)
(* activity and the composability score of a new account                   *)
C31_SwapLeftScoreBehind ==
  /\ delivered = 1
  /\ DOMAIN accounts = {UserA, UserB}
  /\ accounts[UserB].dexActivityCount = 1
  /\ accounts[UserB].totalTransactionCount = 0
  /\ accounts[UserB].composabilityScore = BD(0)

(* An account that no swap has touched has the score of its counters: the  *)
(* universal transaction path computes it after it counts                  *)
ComposabilityTracksCountersWithoutSwap ==
  \A a \in DOMAIN accounts :
    accounts[a].dexActivityCount = 0 => ComposabilityTracksCounters(accounts[a])


-----------------------------------------------------------------------------
(* The global volume against the daily volumes *)

(* C32: the totalEcosystemVolume of the global EcosystemStats record is    *)
(* the sum of the totalEcosystemVolume of all DailyEcosystemStats records, *)
(* whatever the ecosystem of the events.                                   *)
C32_GlobalVolumeIsSumOfDays ==
  Exists(ecosystemStats, "global") =>
    ecosystemStats["global"].totalEcosystemVolume =
      SumOfField(dailyStats, DOMAIN dailyStats, "totalEcosystemVolume")

(* A transfer of 1 and a bridged transfer of 5 USDFC were handled: the     *)
(* day has the volume 1 of the transfer and the global record the volume   *)
(* 5 of the bridge                                                         *)
C32_GlobalAndDailyApart ==
  /\ Exists(ecosystemStats, "global")
  /\ ecosystemStats["global"].totalEcosystemVolume = 5
  /\ ecosystemStats["global"].bridgeVolume = 5
  /\ DOMAIN dailyStats = {getDayId(blockTimestamp("0xe1"))}
  /\ dailyStats[getDayId(blockTimestamp("0xe1"))].totalEcosystemVolume = 1
  /\ dailyStats[getDayId(blockTimestamp("0xe1"))].protocolTransferVolume = 1

(* What the two totals are: the global one the bridged USDFC of the bridge *)
(* handlers, the daily ones the protocol-native volume of the universal    *)
(* transaction path                                                        *)
GlobalIsBridgedAndDailyIsProtocolVolume ==
  Exists(ecosystemStats, "global") =>
    /\ ecosystemStats["global"].totalEcosystemVolume = ecosystemStats["global"].bridgeVolume
    /\ \A d \in DOMAIN dailyStats :
         dailyStats[d].totalEcosystemVolume = dailyStats[d].protocolTransferVolume


-----------------------------------------------------------------------------
(* The metrics of a pool against its swaps *)

SwapsOfPool(poolAddress) ==
  Cardinality({k \in DOMAIN dexTrades : dexTrades[k].poolAddress = poolAddress})

(* C33: the PoolMetrics record of every pool that had a swap is stored and *)
(* its txCountAllTime is the number of Swap events handled for the pool,   *)
(* the first swap of the pool included.                                    *)
C33_PoolMetricsCountSwaps ==
  \A k \in DOMAIN dexTrades :
    /\ Exists(poolMetrics, dexTrades[k].poolAddress)
    /\ poolMetrics[dexTrades[k].poolAddress].txCountAllTime =
         SwapsOfPool(dexTrades[k].poolAddress)

(* Two swaps of the USDFC/axlUSDC pool were handled, their trades are      *)
(* stored and the profile of the sender has counted them: no PoolMetrics   *)
(* record is stored                                                        *)
C33_SwapsWithoutPoolMetrics ==
  /\ failed = "none"
  /\ SwapsOfPool(POOL_USDFC_AXLUSDC) = 2
  /\ Exists(dexProfiles, UserA)
  /\ dexProfiles[UserA].totalTrades = 2
  /\ ~Exists(poolMetrics, POOL_USDFC_AXLUSDC)

(* No handler stores a PoolMetrics record; every swap stores its trade and *)
(* counts in the profile of the sender                                     *)
PoolMetricsNeverStored ==
  /\ poolMetrics = EmptyStore
  /\ \A a \in DOMAIN dexProfiles :
       dexProfiles[a].totalTrades =
         Cardinality({k \in DOMAIN dexTrades : dexTrades[k].trader = a})


-----------------------------------------------------------------------------
(* The lifetime totals of a trove against its position *)

LifetimeTotals ==
  {"totalBorrowed", "totalRepaid", "totalCollateralAdded", "totalCollateralWithdrawn"}

TotalsReconcile(trove) ==
  /\ trove.totalBorrowed - trove.totalRepaid = trove.debt
  /\ trove.totalCollateralAdded - trove.totalCollateralWithdrawn = trove.collateral

(* C34: for every Trove record totalBorrowed - totalRepaid is its debt and *)
(* totalCollateralAdded - totalCollateralWithdrawn its collateral, and no  *)
(* event of the trove, a close, a reopening and a liquidation included,    *)
(* decreases one of the four lifetime totals.                              *)
C34_LifetimeTotalsReconcile ==
  [][\A b \in DOMAIN troves' :
       /\ TotalsReconcile(troves'[b])
       /\ b \in DOMAIN troves =>
            \A f \in LifetimeTotals : troves'[b][f] >= troves[b][f]]_vars

(* The trove of UserA was opened with debt 1000, closed and reopened with  *)
(* debt 1000 and collateral 2000: it has borrowed 2000 and repaid 1000     *)
C34_TroveReopened ==
  /\ Exists(troves, UserA)
  /\ troves[UserA].status = "ACTIVE"
  /\ troves[UserA].operationCount = 3
  /\ troves[UserA].debt = 1000
  /\ troves[UserA].collateral = 2000
  /\ troves[UserA].totalBorrowed = 2000
  /\ troves[UserA].totalRepaid = 1000
  /\ troves[UserA].totalCollateralWithdrawn > 0


-----------------------------------------------------------------------------
(* The lifetime totals of a stake and of a deposit against the balance *)

StakeReconciles(stake) == stake.totalStaked - stake.totalUnstaked = stake.stake

DepositReconciles(deposit) ==
  deposit.totalDeposited - deposit.totalWithdrawn = deposit.currentDeposit

(* The fields of the two equalities are the same before and after the step *)
BalancesKept ==
  /\ \A a \in DOMAIN protocolStakes :
       /\ a \in DOMAIN protocolStakes'
       /\ \A f \in {"stake", "totalStaked", "totalUnstaked"} :
            protocolStakes'[a][f] = protocolStakes[a][f]
  /\ \A a \in DOMAIN stabilityDeposits :
       /\ a \in DOMAIN stabilityDeposits'
       /\ \A f \in {"currentDeposit", "totalDeposited", "totalWithdrawn"} :
            stabilityDeposits'[a][f] = stabilityDeposits[a][f]

GainsClaimStep ==
  \E g \in GainAmounts :
    \/ handleStakingGainsWithdrawn(UserA, g[1], g[2])
    \/ handleFILGainWithdrawn(UserA, g[1], g[2])

(* C35: for every ProtocolStake record totalStaked - totalUnstaked is the  *)
(* stake and for every StabilityDeposit record totalDeposited -            *)
(* totalWithdrawn is the current deposit; a gains claim event changes no   *)
(* field of these equalities.                                              *)
C35_BalanceTotalsReconcile ==
  [][/\ \A a \in DOMAIN protocolStakes' : StakeReconciles(protocolStakes'[a])
     /\ \A a \in DOMAIN stabilityDeposits' : DepositReconciles(stabilityDeposits'[a])
     /\ GainsClaimStep => BalancesKept]_vars

(* UserA staked 500, lowered the stake to 200 and claimed gains of 3 and 2 *)
C35_GainsClaimedOnLoweredStake ==
  /\ Exists(protocolStakes, UserA)
  /\ protocolStakes[UserA].stake = 200
  /\ protocolStakes[UserA].totalStaked = 500
  /\ protocolStakes[UserA].totalUnstaked = 300
  /\ protocolStakes[UserA].totalFILGained = 3
  /\ protocolStakes[UserA].totalUSDFCGained = 2


-----------------------------------------------------------------------------
(* The lowest collateral ratio of a trove *)

(* The lowest ratio of a borrower before a step: 99999 without a trove *)
LowestBefore(b) ==
  IF b \in DOMAIN troves THEN troves[b].lowestCollateralRatio ELSE BD(99999)

UpdatesBefore(b) == IF b \in DOMAIN troves THEN troves[b].operationCount ELSE 0

(* The step kept the running minimum of the trove of b *)
LowestIsRunningMinimum(b) ==
  LET trove == troves'[b]
      ratio == calculateCollateralRatio(trove.collateral, trove.debt)
  IN /\ ~RGt(trove.lowestCollateralRatio, LowestBefore(b))
     /\ IF trove.operationCount = UpdatesBefore(b)
        THEN trove.lowestCollateralRatio = LowestBefore(b)
        ELSE /\ trove.lowestCollateralRatio = RMin(LowestBefore(b), ratio)
             /\ ~RGt(trove.lowestCollateralRatio, trove.collateralRatio)

(* C36: the lowestCollateralRatio of a trove is the minimum of 99999 and   *)
(* the collateral ratios of its TroveUpdated events: each update leaves    *)
(* the minimum of the former value and the new ratio, it never increases,  *)
(* it is at most the collateral ratio right after an update, and closing   *)
(* and reopening does not reset it.                                        *)
C36_LowestRatioIsRunningMinimum ==
  [][\A b \in DOMAIN troves' : LowestIsRunningMinimum(b)]_vars

(* The trove of UserA was opened at ratio 109.9, closed and reopened at    *)
(* ratio 300: its lowest ratio is 109.9                                    *)
C36_LowestKeptAcrossReopening ==
  /\ Exists(troves, UserA)
  /\ troves[UserA].operationCount = 3
  /\ troves[UserA].status = "ACTIVE"
  /\ troves[UserA].totalRepaid = 1000
  /\ troves[UserA].collateralRatio = BD(300)
  /\ troves[UserA].lowestCollateralRatio = Rat(1099, 10)


-----------------------------------------------------------------------------
(* The type of a trove operation *)

(* The type the previous and the new values of a trove give an operation *)
OperationTypeOf(previousCollateral, previousDebt, coll, debt) ==
  IF previousDebt = 0 /\ debt > 0 THEN "OPEN"
  ELSE IF previousDebt > 0 /\ debt = 0 THEN "CLOSE"
  ELSE IF debt = previousDebt /\ coll > previousCollateral THEN "ADD_COLLATERAL"
  ELSE IF debt = previousDebt /\ coll < previousCollateral THEN "WITHDRAW_COLLATERAL"
  ELSE IF coll = previousCollateral /\ debt > previousDebt THEN "BORROW"
  ELSE IF coll = previousCollateral /\ debt < previousDebt THEN "REPAY"
  ELSE "ADJUST"

StoredOr0(store, id, field) ==
  IF Exists(store, id) /\ field \in DOMAIN store[id] THEN store[id][field] ELSE 0

TroveOperationDerived(operation, previousCollateral, previousDebt, coll, debt) ==
  /\ operation.operation = OperationTypeOf(previousCollateral, previousDebt, coll, debt)
  /\ operation.collateralChange = coll - previousCollateral
  /\ operation.debtChange = debt - previousDebt

(* The operation record k, when the step wrote it, is derived from the     *)
(* trove as stored before the step and the trove as the step stored it     *)
NewOperationTyped(k) ==
  k \notin DOMAIN troveOperations =>
    LET operation == troveOperations'[k]
        borrower == operation.trove
    IN /\ Exists(troves', borrower)
       /\ TroveOperationDerived(operation,
                                StoredOr0(troves, borrower, "collateral"),
                                StoredOr0(troves, borrower, "debt"),
                                troves'[borrower].collateral,
                                troves'[borrower].debt)

(* C37: the operation record of a TroveUpdated event has the type OPEN iff *)
(* the previous debt is 0 and the new debt above 0, CLOSE iff the previous *)
(* debt is above 0 and the new debt 0, else ADD_COLLATERAL,                *)
(* WITHDRAW_COLLATERAL, BORROW or REPAY when only the collateral or only   *)
(* the debt changed, in that direction, and ADJUST in every other case;    *)
(* its collateralChange and debtChange are the new value minus the stored  *)
(* previous value.                                                         *)
C37_OperationTypeFromValues ==
  [][\A k \in DOMAIN troveOperations' : NewOperationTyped(k)]_vars

TypesOfOperations == {troveOperations[k].operation : k \in DOMAIN troveOperations}

(* A trove was opened with collateral 3000 and debt 1000, its debt raised  *)
(* to 2000 and lowered to 1000: OPEN, BORROW and REPAY are stored          *)
C37_OpenedBorrowedRepaid ==
  /\ failed = "none"
  /\ TypesOfOperations = {"OPEN", "BORROW", "REPAY"}
  /\ \E k \in DOMAIN troveOperations :
       /\ troveOperations[k].operation = "REPAY"
       /\ troveOperations[k].debtChange = -1000
       /\ troveOperations[k].collateralChange = 0


-----------------------------------------------------------------------------
(* The range of the scores *)

InScoreRange(score) == ~RLt(score, ZERO_BD) /\ ~RGt(score, BD(100))

(* C38: the healthScore, performanceScore and liquidationRiskScore of      *)
(* every trove, the performanceScore of every stake and deposit and the    *)
(* influenceScore of every account lie in the closed range from 0 to 100.  *)
C38_ScoresInRange ==
  /\ \A b \in DOMAIN troves :
       /\ InScoreRange(troves[b].healthScore)
       /\ InScoreRange(troves[b].performanceScore)
       /\ InScoreRange(troves[b].liquidationRiskScore)
  /\ \A a \in DOMAIN protocolStakes : InScoreRange(protocolStakes[a].performanceScore)
  /\ \A a \in DOMAIN stabilityDeposits : InScoreRange(stabilityDeposits[a].performanceScore)
  /\ \A a \in DOMAIN accounts : InScoreRange(accounts[a].influenceScore)

(* UserA has sent 20000 tokens, holds a trove at ratio 10 and a stake of   *)
(* 2000 tokens: the influence score is at its cap, the size of the stake   *)
(* scores 100 and the liquidation risk of the ratio is clamped             *)
C38_ScoresAtTheirCaps ==
  /\ failed = "none"
  /\ Exists(accounts, UserA)
  /\ accounts[UserA].totalVolumeOut >= 20000 * DECIMAL_PRECISION
  /\ accounts[UserA].influenceScore = BD(100)
  /\ Exists(troves, UserA)
  /\ troves[UserA].collateralRatio = BD(10)
  /\ RGt(RTimes(RDiv(BD(110), RPlus(troves[UserA].collateralRatio, BD(1))), BD(100)), BD(300))
  /\ Exists(protocolStakes, UserA)
  /\ protocolStakes[UserA].stake = 2000 * DECIMAL_PRECISION


-----------------------------------------------------------------------------
(* The daily market record against the price updates of its day *)

DayOfUpdate(k) == BigIntDiv(priceUpdates[k].timestamp, 86400)

UpdatesOfDay(dayId) == {k \in DOMAIN priceUpdates : DayOfUpdate(k) = dayId}

(* The first and the latest update of a day, by the position in the log *)
FirstUpdateOfDay(dayId) ==
  CHOOSE k \in UpdatesOfDay(dayId) : \A j \in UpdatesOfDay(dayId) : k[2] <= j[2]

LatestUpdateOfDay(dayId) ==
  CHOOSE k \in UpdatesOfDay(dayId) : \A j \in UpdatesOfDay(dayId) : j[2] <= k[2]

OpenHighLowClose(m) ==
  /\ ~RGt(m.lowPrice, m.openPrice)
  /\ ~RGt(m.openPrice, m.highPrice)
  /\ ~RGt(m.lowPrice, m.closePrice)
  /\ ~RGt(m.closePrice, m.highPrice)

(* C39: every MarketCondition record has lowPrice <= openPrice <=          *)
(* highPrice and lowPrice <= closePrice <= highPrice, its openPrice is the *)
(* price of the first price update of its day, its closePrice the price of *)
(* the latest one, and its priceUpdatesCount the number of price updates   *)
(* processed for the day.                                                  *)
C39_DailyRecordIsOpenHighLowClose ==
  /\ \A k \in DOMAIN priceUpdates : DayOfUpdate(k) \in DOMAIN marketConditions
  /\ \A dayId \in DOMAIN marketConditions :
       LET m == marketConditions[dayId]
       IN /\ OpenHighLowClose(m)
          /\ UpdatesOfDay(dayId) # {}
          /\ m.openPrice = BD(priceUpdates[FirstUpdateOfDay(dayId)].filPrice)
          /\ m.closePrice = BD(priceUpdates[LatestUpdateOfDay(dayId)].filPrice)
          /\ m.priceUpdatesCount = Cardinality(UpdatesOfDay(dayId))

(* Day 0 has opened at 2 and closed at 0 after two updates, and a third    *)
(* update has opened day 31                                                *)
C39_DayClosedBelowItsOpen ==
  /\ failed = "none"
  /\ Exists(marketConditions, 0)
  /\ marketConditions[0].priceUpdatesCount = 2
  /\ marketConditions[0].openPrice = BD(2)
  /\ marketConditions[0].highPrice = BD(2)
  /\ marketConditions[0].lowPrice = ZERO_BD
  /\ marketConditions[0].closePrice = ZERO_BD
  /\ Exists(marketConditions, 31)
  /\ marketConditions[31].priceUpdatesCount = 1


-----------------------------------------------------------------------------
(* The status of the operations kept under a command id *)

StatusOfCommand(store, commandId) ==
  IF Exists(store, commandKey(commandId))
  THEN store[commandKey(commandId)].status
  ELSE "none"

(* A record becomes Executed from a record an approval has written *)
ExecutedFromApproved(commandId) ==
  StatusOfCommand(bridgeOperations', commandId) = "Executed"
    => StatusOfCommand(bridgeOperations, commandId) \in {"Approved", "Executed"}

(* A record that is Executed stays Executed *)
ExecutedIsKept(commandId) ==
  StatusOfCommand(bridgeOperations, commandId) = "Executed"
    => StatusOfCommand(bridgeOperations', commandId) = "Executed"

(* C40: a BridgeOperation record reaches the status Executed only after a  *)
(* ContractCallApproved event of its command id has been processed, an     *)
(* Executed event of an unknown command id creating no record, and once a  *)
(* record is Executed no later ContractCallApproved event of the command   *)
(* id moves it back to Approved.                                           *)
C40_StatusOnlyMovesForward ==
  [][\A c \in CommandIds : ExecutedFromApproved(c) /\ ExecutedIsKept(c)]_vars

(* The operation of command 0xc1 has been approved and executed and the    *)
(* gateway has an event left to deliver: a ContractCallApproved of 0xc1    *)
(* is handled next                                                         *)
C40_ExecutedBeforeAnotherApproval ==
  /\ failed = "none"
  /\ delivered = 2
  /\ delivered < MaxBridgeEvents
  /\ StatusOfCommand(bridgeOperations, "0xc1") = "Executed"
  /\ ENABLED handleContractCallApproved("0xc1", "0xsource")

(* Records under a command id are written by the two handlers alone, and   *)
(* the remainder of the claim holds: Executed follows an approval, and an  *)
(* Executed record changes its status on an approval only                  *)
ExecutedOnlyAfterApproval ==
  [][\A c \in CommandIds :
       /\ ExecutedFromApproved(c)
       /\ ~ExecutedIsKept(c) =>
            StatusOfCommand(bridgeOperations', c) = "Approved"]_vars

====
